---- MODULE Spec2Model ----
(***************************************************************************)
(* The validation engine of the data-alchemist dashboard                    *)
(* (src/src/lib/validation/validationEngine.ts): one ValidationEngine       *)
(* instance, its validationResults field, and calls of validateData on it.  *)
(*                                                                          *)
(* Values are JavaScript values.  A string is a sequence of one-character   *)
(* strings, so that JSON.parse, split, trim, includes and parseInt are      *)
(* computed character by character.  Field values of the records range over *)
(* undefined, integers and strings over the alphabet                        *)
(*   digits, letters, space, and  [ ] { } , - : "                           *)
(* (no fractions, exponents or escape sequences).                           *)
(***************************************************************************)
EXTENDS Integers, Sequences, FiniteSets, TLC

(***************************************************************************)
(* JavaScript values: one record shape for every kind.                      *)
(*   t : the kind; n : the number; s : the characters; a : the elements     *)
(***************************************************************************)
Undef == [t |-> "undefined", n |-> 0, s |-> <<>>, a |-> <<>>]
Null == [t |-> "null", n |-> 0, s |-> <<>>, a |-> <<>>]
NaN == [t |-> "NaN", n |-> 0, s |-> <<>>, a |-> <<>>]
Num(i) == [t |-> "number", n |-> i, s |-> <<>>, a |-> <<>>]
Str(cs) == [t |-> "string", n |-> 0, s |-> cs, a |-> <<>>]
Bool(b) == [t |-> "boolean", n |-> (IF b THEN 1 ELSE 0), s |-> <<>>, a |-> <<>>]
Arr(es) == [t |-> "array", n |-> 0, s |-> <<>>, a |-> es]
Obj == [t |-> "object", n |-> 0, s |-> <<>>, a |-> <<>>]

\* typeof v
typeof(v) ==
  CASE v.t \in {"number", "NaN"} -> "number"
    [] v.t \in {"array", "object", "null"} -> "object"
    [] OTHER -> v.t

\* ToBoolean(v): the conditions  if (v), v && ..., v || ..., filter(Boolean)
Truthy(v) ==
  CASE v.t \in {"undefined", "null", "NaN"} -> FALSE
    [] v.t = "number" -> v.n # 0
    [] v.t = "boolean" -> v.n = 1
    [] v.t = "string" -> v.s # <<>>
    [] OTHER -> TRUE

\* a || b
OrElse(a, b) == IF Truthy(a) THEN a ELSE b

\* Array.isArray(v), objects passing for arrays
isArrayOrObject(v) == v.t \in {"array", "object"}

\* Array.isArray(v)
isArray(v) == v.t = "array"

(***************************************************************************)
(* Characters and strings                                                  *)
(***************************************************************************)
Digits == <<"0", "1", "2", "3", "4", "5", "6", "7", "8", "9">>
IsDigit(c) == \E i \in DOMAIN Digits : Digits[i] = c
DigitVal(c) == (CHOOSE i \in DOMAIN Digits : Digits[i] = c) - 1
IsWs(c) == c = " "

UpperCase == <<"A", "B", "C", "T", "W", "X">>
LowerCase == <<"a", "b", "c", "t", "w", "x">>
\* one character of String.prototype.toLowerCase
lowerChar(c) ==
  IF \E i \in DOMAIN UpperCase : UpperCase[i] = c
  THEN LowerCase[CHOOSE i \in DOMAIN UpperCase : UpperCase[i] = c]
  ELSE c

\* String.prototype.toLowerCase
toLowerCase(s) == [i \in DOMAIN s |-> lowerChar(s[i])]

\* first index >= i of s that holds no white space (Len(s)+1 when none)
RECURSIVE skipWs(_, _)
skipWs(s, i) == IF i <= Len(s) /\ IsWs(s[i]) THEN skipWs(s, i + 1) ELSE i

\* last index <= i of s that holds no white space (0 when none)
RECURSIVE skipWsBack(_, _)
skipWsBack(s, i) == IF i >= 1 /\ IsWs(s[i]) THEN skipWsBack(s, i - 1) ELSE i

\* String.prototype.trim
trim(s) == SubSeq(s, skipWs(s, 1), skipWsBack(s, Len(s)))

\* String.prototype.includes, for a one-character needle
includes(s, c) == \E i \in DOMAIN s : s[i] = c

\* String.prototype.startsWith, for a one-character prefix
startsWith(s, c) == Len(s) >= 1 /\ s[1] = c

\* String.prototype.split, for a one-character separator
RECURSIVE splitFrom(_, _, _, _)
splitFrom(s, c, i, cur) ==
  IF i > Len(s) THEN <<cur>>
  ELSE IF s[i] = c THEN <<cur>> \o splitFrom(s, c, i + 1, <<>>)
  ELSE splitFrom(s, c, i + 1, Append(cur, s[i]))
split(s, c) == splitFrom(s, c, 1, <<>>)

\* Array.prototype.join over strings
RECURSIVE join(_, _)
join(strs, sep) ==
  IF strs = <<>> THEN <<>>
  ELSE IF Len(strs) = 1 THEN strs[1]
  ELSE strs[1] \o sep \o join(Tail(strs), sep)

\* the decimal digits of a natural number
RECURSIVE natToStr(_)
natToStr(n) == IF n < 10 THEN <<Digits[n + 1]>> ELSE natToStr(n \div 10) \o <<Digits[(n % 10) + 1]>>

\* Number::toString for an integer
intToStr(n) == IF n < 0 THEN <<"-">> \o natToStr(-n) ELSE natToStr(n)

\* the value of the digits s[i..], read left to right from acc, and where they end
RECURSIVE readDigits(_, _, _)
readDigits(s, i, acc) ==
  IF i <= Len(s) /\ IsDigit(s[i]) THEN readDigits(s, i + 1, 10 * acc + DigitVal(s[i]))
  ELSE [n |-> acc, i |-> i]

\* parseInt(s): leading white space, an optional sign, then the longest run of digits
parseInt(s) ==
  LET j == skipWs(s, 1)
      neg == j <= Len(s) /\ s[j] = "-"
      k == IF j <= Len(s) /\ s[j] \in {"-", "+"} THEN j + 1 ELSE j
      r == readDigits(s, k, 0)
  IN  IF r.i = k THEN NaN ELSE Num(IF neg THEN -r.n ELSE r.n)

\* StringToNumber(s), for integer literals: "" is 0, digits with an optional sign
stringToNumber(s) ==
  LET u == trim(s)
      k == IF u # <<>> /\ u[1] \in {"-", "+"} THEN 2 ELSE 1
      r == readDigits(u, k, 0)
  IN  IF u = <<>> THEN Num(0)
      ELSE IF r.i = k \/ r.i <= Len(u) THEN NaN
      ELSE Num(IF u[1] = "-" THEN -r.n ELSE r.n)

\* ToNumber(v)
ToNumber(v) ==
  CASE v.t = "number" -> v
    [] v.t = "string" -> stringToNumber(v.s)
    [] v.t = "null" -> Num(0)
    [] v.t = "boolean" -> Num(v.n)
    [] OTHER -> NaN

\* a < b and a > b when one side is a number: both sides go through ToNumber, and
\* every comparison with NaN is false
Lt(a, b) ==
  LET x == ToNumber(a)
      y == ToNumber(b)
  IN  x.t = "number" /\ y.t = "number" /\ x.n < y.n
Gt(a, b) == Lt(b, a)

\* ToString(v), as template literals, property keys and JSON.parse apply it
RECURSIVE toStr(_)
toStr(v) ==
  CASE v.t = "string" -> v.s
    [] v.t = "number" -> intToStr(v.n)
    [] v.t = "NaN" -> <<"N", "a", "N">>
    [] v.t = "undefined" -> <<"u", "n", "d", "e", "f", "i", "n", "e", "d">>
    [] v.t = "null" -> <<"n", "u", "l", "l">>
    [] v.t = "boolean" -> IF v.n = 1 THEN <<"t", "r", "u", "e">> ELSE <<"f", "a", "l", "s", "e">>
    [] v.t = "object" -> <<"[", "o", "b", "j", "e", "c", "t", " ", "O", "b", "j", "e", "c", "t", "]">>
    [] OTHER -> join([i \in DOMAIN v.a |->
                       IF v.a[i].t \in {"undefined", "null"} THEN <<>> ELSE toStr(v.a[i])], <<",">>)

(***************************************************************************)
(* JSON.parse over the alphabet: numbers are integers, strings hold no      *)
(* escapes.  A parse step returns [ok, v, i]: whether a value was read,     *)
(* the value, and the index after it.                                       *)
(***************************************************************************)
parseFail == [ok |-> FALSE, v |-> Undef, i |-> 0]
parseOk(v, i) == [ok |-> TRUE, v |-> v, i |-> i]

\* does the word w stand at s[i..] ?
wordAt(s, i, w) == i + Len(w) - 1 <= Len(s) /\ SubSeq(s, i, i + Len(w) - 1) = w

\* a JSON number at s[i]:  -? ( 0 | [1-9][0-9]* )
jsonNumber(s, i) ==
  LET neg == s[i] = "-"
      k == IF neg THEN i + 1 ELSE i
      r == IF k <= Len(s) /\ s[k] = "0" THEN [n |-> 0, i |-> k + 1] ELSE readDigits(s, k, 0)
  IN  IF r.i = k THEN parseFail ELSE parseOk(Num(IF neg THEN -r.n ELSE r.n), r.i)

\* a JSON string whose opening quote stands at s[i - 1]
RECURSIVE jsonString(_, _, _)
jsonString(s, i, cur) ==
  IF i > Len(s) THEN parseFail
  ELSE IF s[i] = "\"" THEN parseOk(Str(cur), i + 1)
  ELSE jsonString(s, i + 1, Append(cur, s[i]))

RECURSIVE jsonValue(_, _)
RECURSIVE jsonElements(_, _, _)
RECURSIVE jsonMembers(_, _)

\* the elements of an array after "[" or ",": value, then "," or "]"
jsonElements(s, i, es) ==
  LET r == jsonValue(s, i)
      j == skipWs(s, r.i)
  IN  IF ~r.ok \/ j > Len(s) THEN parseFail
      ELSE IF s[j] = "]" THEN parseOk(Arr(Append(es, r.v)), j + 1)
      ELSE IF s[j] = "," THEN jsonElements(s, j + 1, Append(es, r.v))
      ELSE parseFail

\* the members of an object after "{" or ",": string, ":", value, then "," or "}"
jsonMembers(s, i) ==
  LET j == skipWs(s, i)
      key == IF j <= Len(s) /\ s[j] = "\"" THEN jsonString(s, j + 1, <<>>) ELSE parseFail
      c == skipWs(s, key.i)
      r == IF key.ok /\ c <= Len(s) /\ s[c] = ":" THEN jsonValue(s, c + 1) ELSE parseFail
      e == skipWs(s, r.i)
  IN  IF ~r.ok \/ e > Len(s) THEN parseFail
      ELSE IF s[e] = "}" THEN parseOk(Obj, e + 1)
      ELSE IF s[e] = "," THEN jsonMembers(s, e + 1)
      ELSE parseFail

jsonValue(s, i) ==
  LET j == skipWs(s, i)
  IN  IF j > Len(s) THEN parseFail
      ELSE IF s[j] = "[" THEN
             (IF skipWs(s, j + 1) <= Len(s) /\ s[skipWs(s, j + 1)] = "]"
              THEN parseOk(Arr(<<>>), skipWs(s, j + 1) + 1)
              ELSE jsonElements(s, j + 1, <<>>))
      ELSE IF s[j] = "{" THEN
             (IF skipWs(s, j + 1) <= Len(s) /\ s[skipWs(s, j + 1)] = "}"
              THEN parseOk(Obj, skipWs(s, j + 1) + 1)
              ELSE jsonMembers(s, j + 1))
      ELSE IF s[j] = "\"" THEN jsonString(s, j + 1, <<>>)
      ELSE IF s[j] = "-" \/ IsDigit(s[j]) THEN jsonNumber(s, j)
      ELSE IF wordAt(s, j, <<"n", "u", "l", "l">>) THEN parseOk(Null, j + 4)
      ELSE IF wordAt(s, j, <<"t", "r", "u", "e">>) THEN parseOk(Bool(TRUE), j + 4)
      ELSE IF wordAt(s, j, <<"f", "a", "l", "s", "e">>) THEN parseOk(Bool(FALSE), j + 5)
      ELSE parseFail

\* JSON.parse(v): the argument goes through ToString; ok = FALSE is a SyntaxError
JSONparse(v) ==
  LET s == toStr(v)
      r == jsonValue(s, 1)
  IN  IF r.ok /\ skipWs(s, r.i) > Len(s) THEN [ok |-> TRUE, v |-> r.v]
      ELSE [ok |-> FALSE, v |-> Undef]

(***************************************************************************)
(* Records, findings and the run of one validateData call                  *)
(*                                                                          *)
(* A client, worker or task is a function from the field names it has to    *)
(* values.  A finding is a record with the keys the code gives it.  A       *)
(* template literal is its text with numbered holes and the strings that    *)
(* fill them.                                                               *)
(***************************************************************************)
\* entity[field]: undefined when the record has no such key
Get(e, f) == IF f \in DOMAIN e THEN e[f] ELSE Undef

Msg(text, args) == [text |-> text, args |-> args]

\* the run of a call: the findings pushed so far, whether an exception is
\* propagating, and the rule objects as the call has left them
Run(res, ex, rules) == [res |-> res, ex |-> ex, rules |-> rules]

\* this.validationResults.push(result)
addValidationResult(st, result) == [st EXCEPT !.res = Append(st.res, result)]

\* an uncaught TypeError: the rest of validateData does not run
Throw(st) == [st EXCEPT !.ex = TRUE]

\* one iteration of a forEach: skipped once an exception is propagating
iterate(st, x, body(_, _)) == IF st.ex THEN st ELSE body(st, x)

\* xs.forEach(x => body): stops when body throws
forEach(st, xs, body(_, _)) ==
  LET f[i \in 0..Len(xs)] == IF i = 0 THEN st ELSE iterate(f[i - 1], xs[i], body)
  IN  f[Len(xs)]

\* xs.indexOf(x): 0 when absent
indexOf(xs, x) == IF \E i \in DOMAIN xs : xs[i] = x THEN CHOOSE i \in DOMAIN xs : xs[i] = x /\ \A j \in 1..(i - 1) : xs[j] # x ELSE 0

\* the list with its repetitions kept
withRepeats(xs) == xs

\* [...new Set(xs)]: first occurrences, in order
RECURSIVE unique(_)
unique(xs) ==
  IF xs = <<>> THEN <<>>
  ELSE LET front == unique(SubSeq(xs, 1, Len(xs) - 1))
           last == xs[Len(xs)]
       IN  IF indexOf(front, last) # 0 THEN front ELSE Append(front, last)

\* the elements of xs at the indexes that satisfy keep
appendIf(xs, x, keep) == IF keep THEN Append(xs, x) ELSE xs
filterIndex(xs, keep(_)) ==
  LET f[i \in 0..Len(xs)] == IF i = 0 THEN <<>> ELSE appendIf(f[i - 1], xs[i], keep(i))
  IN  f[Len(xs)]

\* names.join(', ') over field names
RECURSIVE joinNames(_)
joinNames(names) ==
  IF names = <<>> THEN ""
  ELSE IF Len(names) = 1 THEN names[1]
  ELSE names[1] \o ", " \o joinNames(Tail(names))

CommaSpace == <<",", " ">>

requiredColumns(entityType) ==
  CASE entityType = "clients" -> <<"ClientID", "ClientName", "PriorityLevel", "RequestedTaskIDs">>
    [] entityType = "workers" -> <<"WorkerID", "WorkerName", "Skills", "AvailableSlots", "MaxLoadPerPhase">>
    [] entityType = "tasks" -> <<"TaskID", "TaskName", "Duration", "RequiredSkills">>

\* the key set of the last record instead of the first
validateLastRecordColumns(st, entities, entityType) ==
  IF st.ex \/ Len(entities) = 0 THEN st
  ELSE IF \E i \in DOMAIN requiredColumns(entityType) :
            requiredColumns(entityType)[i] \notin DOMAIN entities[Len(entities)]
  THEN addValidationResult(st,
         [type |-> "missing_columns", severity |-> "error",
          message |-> Msg("Missing required columns", <<>>),
          entityType |-> entityType,
          suggestion |-> Msg("Add the missing columns", <<>>)])
  ELSE st

\* Validation 1: missing required columns, read off the first record
validateRequiredColumns(st, entities, entityType) ==
  IF st.ex \/ Len(entities) = 0 THEN st
  ELSE LET required == requiredColumns(entityType)
           actualColumns == DOMAIN entities[1]
           missing == SelectSeq(required, LAMBDA col : col \notin actualColumns)
       IN  IF Len(missing) > 0
           THEN addValidationResult(st,
                  [type |-> "missing_columns", severity |-> "error",
                   message |-> Msg("Missing required columns: " \o joinNames(missing), <<>>),
                   entityType |-> entityType,
                   suggestion |-> Msg("Add the missing columns to your " \o entityType \o " data", <<>>)])
           ELSE st

idField(entityType) ==
  CASE entityType = "clients" -> "ClientID"
    [] entityType = "workers" -> "WorkerID"
    [] entityType = "tasks" -> "TaskID"

\* Validation 2: duplicate ids, one finding per duplicated value
validateUniqueIds(st, entities, entityType) ==
  IF st.ex \/ Len(entities) = 0 THEN st
  ELSE LET all == [i \in DOMAIN entities |-> Get(entities[i], idField(entityType))]
           ids == SelectSeq(all, Truthy)
           duplicates == filterIndex(ids, LAMBDA i : indexOf(ids, ids[i]) # i)
           uniqueDuplicates == unique(duplicates)
       IN  forEach(st, uniqueDuplicates, LAMBDA s1, dupId :
             addValidationResult(s1,
               [type |-> "duplicate_id", severity |-> "error",
                message |-> Msg("Duplicate ID found: ${0}", <<toStr(dupId)>>),
                entityType |-> entityType, entityId |-> dupId,
                suggestion |-> Msg("Ensure all IDs are unique", <<>>)]))

\* the condition of the priority check
priorityOutOfRange(priority) ==
  Truthy(priority) /\ (Lt(priority, Num(1)) \/ Gt(priority, Num(5)))

\* Validation 3: priority level range (1-5)
validatePriorityLevels(st, clients) ==
  forEach(st, clients, LAMBDA s1, client :
    LET priority == Get(client, "PriorityLevel")
    IN  IF priorityOutOfRange(priority)
        THEN addValidationResult(s1,
               [type |-> "invalid_priority", severity |-> "error",
                message |-> Msg("Priority level must be between 1-5, found: ${0}", <<toStr(priority)>>),
                entityType |-> "clients", entityId |-> Get(client, "ClientID"),
                field |-> "PriorityLevel",
                suggestion |-> Msg("Set priority level to a value between 1 and 5", <<>>)])
        ELSE s1)

\* Validation 4: malformed JSON in AttributesJSON
validateAttributesJSON(st, clients) ==
  forEach(st, clients, LAMBDA s1, client :
    LET attrs == Get(client, "AttributesJSON")
    IN  IF Truthy(attrs) /\ typeof(attrs) = "string"
        THEN IF startsWith(trim(attrs.s), "{") \/ startsWith(trim(attrs.s), "[")
             THEN IF JSONparse(attrs).ok THEN s1
                  ELSE addValidationResult(s1,
                         [type |-> "invalid_json", severity |-> "error",
                          message |-> Msg("Invalid JSON format in AttributesJSON", <<>>),
                          entityType |-> "clients", entityId |-> Get(client, "ClientID"),
                          field |-> "AttributesJSON",
                          suggestion |-> Msg("Fix JSON syntax or convert to valid JSON format", <<>>)])
             ELSE addValidationResult(s1,
                    [type |-> "non_json_attributes", severity |-> "warning",
                     message |-> Msg("AttributesJSON contains text instead of JSON", <<>>),
                     entityType |-> "clients", entityId |-> Get(client, "ClientID"),
                     field |-> "AttributesJSON",
                     suggestion |-> Msg("Consider converting to JSON format for better structure", <<>>)])
        ELSE s1)

\* the finding of the AvailableSlots check, as a warning
slotsWarning(worker, type, message, suggestion) ==
  [type |-> type, severity |-> "warning", message |-> Msg(message, <<>>),
   entityType |-> "workers", entityId |-> Get(worker, "WorkerID"),
   field |-> "AvailableSlots", suggestion |-> Msg(suggestion, <<>>)]

\* the finding of the AvailableSlots check
slotsFinding(worker, type, message, suggestion) ==
  [type |-> type, severity |-> "error", message |-> Msg(message, <<>>),
   entityType |-> "workers", entityId |-> Get(worker, "WorkerID"),
   field |-> "AvailableSlots", suggestion |-> Msg(suggestion, <<>>)]

\* Validation 5: malformed AvailableSlots
validateAvailableSlots(st, workers) ==
  forEach(st, workers, LAMBDA s1, worker :
    LET slots == Get(worker, "AvailableSlots")
        parsed == JSONparse(slots)
    IN  IF ~Truthy(slots) THEN s1
        ELSE IF ~parsed.ok
        THEN addValidationResult(s1, slotsFinding(worker, "unparseable_slots",
               "AvailableSlots contains invalid JSON", "Use valid JSON array format like [1,2,3]"))
        ELSE IF ~isArray(parsed.v)
        THEN addValidationResult(s1, slotsFinding(worker, "invalid_slots_format",
               "AvailableSlots must be an array", "Use array format like [1,2,3]"))
        ELSE IF \E i \in DOMAIN parsed.v.a :
                  typeof(parsed.v.a[i]) # "number" \/ Lt(parsed.v.a[i], Num(1))
        THEN addValidationResult(s1, slotsFinding(worker, "invalid_slot_values",
               "AvailableSlots must contain positive numbers", "Use positive phase numbers like [1,2,3]"))
        ELSE s1)

\* the condition of the duration check
durationInvalid(duration) ==
  Truthy(duration) /\ (typeof(duration) # "number" \/ Lt(duration, Num(1)))

\* Validation 6: task duration
validateTaskDuration(st, tasks) ==
  forEach(st, tasks, LAMBDA s1, task :
    LET duration == Get(task, "Duration")
    IN  IF durationInvalid(duration)
        THEN addValidationResult(s1,
               [type |-> "invalid_duration", severity |-> "error",
                message |-> Msg("Task duration must be >= 1, found: ${0}", <<toStr(duration)>>),
                entityType |-> "tasks", entityId |-> Get(task, "TaskID"),
                field |-> "Duration",
                suggestion |-> Msg("Set duration to a positive number", <<>>)])
        ELSE s1)

(***************************************************************************)
(* Cross-entity validators                                                  *)
(***************************************************************************)
\* s.split(',') without the trim
splitOnly(s) == split(s, ",")

\* s.split(',').map(x => x.trim())
splitTrim(s) == LET parts == split(s, ",") IN [i \in DOMAIN parts |-> trim(parts[i])]

\* s.split(',').map(x => x.trim()) with the case kept
splitSkillsCased(s) == [i \in DOMAIN split(s, ",") |-> trim(split(s, ",")[i])]

\* s.split(',').map(x => x.trim().toLowerCase())
splitSkills(s) == LET parts == split(s, ",") IN [i \in DOMAIN parts |-> toLowerCase(trim(parts[i]))]

\* Validation 7: RequestedTaskIDs name existing tasks
validateTaskReferences(st, clients, tasks) ==
  LET taskIds == {Get(tasks[i], "TaskID") : i \in DOMAIN tasks}
  IN  forEach(st, clients, LAMBDA s1, client :
        LET requestedTasks == Get(client, "RequestedTaskIDs")
            taskIdList == splitTrim(requestedTasks.s)
            missingTasks == SelectSeq(taskIdList, LAMBDA taskId : taskId # <<>> /\ Str(taskId) \notin taskIds)
        IN  IF Truthy(requestedTasks) /\ typeof(requestedTasks) = "string" /\ Len(missingTasks) > 0
            THEN addValidationResult(s1,
                   [type |-> "missing_task_references", severity |-> "error",
                    message |-> Msg("Referenced tasks don't exist: ${0}", <<join(missingTasks, CommaSpace)>>),
                    entityType |-> "clients", entityId |-> Get(client, "ClientID"),
                    field |-> "RequestedTaskIDs",
                    suggestion |-> Msg("Remove invalid task references or add the missing tasks", <<>>)])
            ELSE s1)

\* worker.MaxLoadPerPhase || 0
maxLoadOf(worker) == OrElse(Get(worker, "MaxLoadPerPhase"), Num(0))

\* JSON.parse(worker.AvailableSlots) without the default
parseSlotsAsGiven(worker) == JSONparse(Get(worker, "AvailableSlots"))

\* JSON.parse(worker.AvailableSlots || '[]')
parseSlots(worker) == JSONparse(OrElse(Get(worker, "AvailableSlots"), Str(<<"[", "]">>)))

\* Validation 8: overloaded workers; a worker whose slots do not parse is skipped
validateOverloadedWorkers(st, workers) ==
  forEach(st, workers, LAMBDA s1, worker :
    LET parsed == parseSlots(worker)
        maxLoad == maxLoadOf(worker)
        count == Len(parsed.v.a)
    IN  IF parsed.ok /\ isArray(parsed.v) /\ Lt(Num(count), maxLoad)
        THEN addValidationResult(s1,
               [type |-> "overloaded_worker", severity |-> "error",
                message |-> Msg("Worker has ${0} available slots but max load is ${1}",
                                <<intToStr(count), toStr(maxLoad)>>),
                entityType |-> "workers", entityId |-> Get(worker, "WorkerID"),
                field |-> "MaxLoadPerPhase",
                suggestion |-> Msg("Reduce MaxLoadPerPhase to ${0} or add more available slots",
                                   <<intToStr(count)>>)])
        ELSE s1)

\* x.split(...) is a TypeError unless x is a string
canSplit(v) == typeof(v) = "string"

\* Validation 9: every required skill is some worker's skill
validateSkillCoverage(st, workers, tasks) ==
  LET \* the first loop: collect the workers' skills, or throw at a Skills that has no split
      withSkills == [w \in DOMAIN workers |-> Truthy(Get(workers[w], "Skills"))]
      workersThrow == \E w \in DOMAIN workers : withSkills[w] /\ ~canSplit(Get(workers[w], "Skills"))
      allWorkerSkills ==
        UNION {{splitSkills(Get(workers[w], "Skills").s)[k] :
                   k \in DOMAIN splitSkills(Get(workers[w], "Skills").s)} :
               w \in {x \in DOMAIN workers : withSkills[x]}}
  IN  IF st.ex THEN st
      ELSE IF workersThrow THEN Throw(st)
      ELSE forEach(st, tasks, LAMBDA s1, task :
        LET required == Get(task, "RequiredSkills")
            requiredSkills == splitSkills(required.s)
            missingSkills == SelectSeq(requiredSkills, LAMBDA skill : skill \notin allWorkerSkills)
        IN  IF ~Truthy(required) THEN s1
            ELSE IF ~canSplit(required) THEN Throw(s1)
            ELSE IF Len(missingSkills) > 0
            THEN addValidationResult(s1,
                   [type |-> "missing_skill_coverage", severity |-> "error",
                    message |-> Msg("No workers have required skills: ${0}", <<join(missingSkills, CommaSpace)>>),
                    entityType |-> "tasks", entityId |-> Get(task, "TaskID"),
                    field |-> "RequiredSkills",
                    suggestion |-> Msg("Hire workers with skills: ${0} or modify task requirements",
                                       <<join(missingSkills, CommaSpace)>>)])
            ELSE s1)

\* Validation 10: MaxConcurrent against the number of qualified workers
validateMaxConcurrency(st, workers, tasks) ==
  forEach(st, tasks, LAMBDA s1, task :
    LET maxConcurrent == Get(task, "MaxConcurrent")
        required == Get(task, "RequiredSkills")
        requiredSkills == splitSkills(required.s)
        \* the filter callback throws at the first worker whose truthy Skills has no split
        filterThrows == \E w \in DOMAIN workers :
                           Truthy(Get(workers[w], "Skills")) /\ ~canSplit(Get(workers[w], "Skills"))
        qualifiedWorkers == SelectSeq(workers, LAMBDA worker :
                              /\ Truthy(Get(worker, "Skills"))
                              /\ LET workerSkills == splitSkills(Get(worker, "Skills").s)
                                 IN  \A r \in DOMAIN requiredSkills :
                                       \E k \in DOMAIN workerSkills : workerSkills[k] = requiredSkills[r])
    IN  IF ~(Truthy(maxConcurrent) /\ Truthy(required)) THEN s1
        ELSE IF ~canSplit(required) \/ filterThrows THEN Throw(s1)
        ELSE IF Gt(maxConcurrent, Num(Len(qualifiedWorkers)))
        THEN addValidationResult(s1,
               [type |-> "max_concurrency_infeasible", severity |-> "error",
                message |-> Msg("Task requires ${0} concurrent workers but only ${1} are qualified",
                                <<toStr(maxConcurrent), intToStr(Len(qualifiedWorkers))>>),
                entityType |-> "tasks", entityId |-> Get(task, "TaskID"),
                field |-> "MaxConcurrent",
                suggestion |-> Msg("Reduce MaxConcurrent to ${0} or hire more qualified workers",
                                   <<intToStr(Len(qualifiedWorkers))>>)])
        ELSE s1)

(***************************************************************************)
(* Plain objects used as maps (Record<number, number>, Record<string, ..>): *)
(* the entries in insertion order, each [k |-> key string, v |-> value].    *)
(***************************************************************************)
mapHas(m, key) == \E i \in DOMAIN m : m[i].k = key
mapGet(m, key) == IF mapHas(m, key) THEN m[CHOOSE i \in DOMAIN m : m[i].k = key].v ELSE Undef
mapSet(m, key, v) ==
  IF mapHas(m, key) THEN [i \in DOMAIN m |-> IF m[i].k = key THEN [k |-> key, v |-> v] ELSE m[i]]
  ELSE Append(m, [k |-> key, v |-> v])

\* an integer-index key: the canonical decimal of a natural number
isIndexKey(key) == key # <<>> /\ (\A i \in DOMAIN key : IsDigit(key[i])) /\ (key[1] # "0" \/ Len(key) = 1)

\* Object.keys(m): the integer-index keys in ascending order, then the others
\* in insertion order
objectKeys(m) ==
  LET keys == [i \in DOMAIN m |-> m[i].k]
      index == SortSeq(SelectSeq(keys, isIndexKey), LAMBDA x, y : readDigits(x, 1, 0).n < readDigits(y, 1, 0).n)
  IN  index \o SelectSeq(keys, LAMBDA key : ~isIndexKey(key))

\* a + b: string concatenation when a side is a string, else the sum of the numbers
jsAdd(a, b) ==
  IF a.t = "string" \/ b.t = "string" THEN Str(toStr(a) \o toStr(b))
  ELSE IF ToNumber(a).t = "NaN" \/ ToNumber(b).t = "NaN" THEN NaN
  ELSE Num(ToNumber(a).n + ToNumber(b).n)

\* the run with a map under construction beside it
withMap(st, m) == [res |-> st.res, ex |-> st.ex, rules |-> st.rules, map |-> m]
dropMap(sm) == Run(sm.res, sm.ex, sm.rules)

\* Array.from({length: end - start + 1}, (_, i) => start + i): empty when the
\* length is not positive
rangeArray(start, end) ==
  IF end - start + 1 <= 0 THEN Arr(<<>>)
  ELSE Arr([i \in 1..(end - start + 1) |-> Num(start + i - 1)])

\* the two halves of a dash range: split('-').map(p => parseInt(p.trim()))
dashBounds(s) ==
  LET parts == split(s, "-")
  IN  [start |-> parseInt(trim(parts[1])), end |-> parseInt(trim(parts[2]))]

\* the value of `phases` before the empty-list default of the saturation check
\* (lines 366-380): a parsed bracketed string, an expanded dash range, else []
saturationParse(preferredPhases) ==
  IF includes(preferredPhases, "[") /\ includes(preferredPhases, "]")
  THEN (IF JSONparse(Str(preferredPhases)).ok THEN JSONparse(Str(preferredPhases)).v ELSE Arr(<<>>))
  ELSE IF includes(preferredPhases, "-")
  THEN LET b == dashBounds(preferredPhases)
       IN  IF b.start.t # "NaN" /\ b.end.t # "NaN" THEN rangeArray(b.start.n, b.end.n) ELSE Arr(<<>>)
  ELSE Arr(<<>>)

\* phases.length === 0 ? [1] : phases, then phases.forEach: [ok |-> FALSE] is the
\* TypeError of a value that has no length or no forEach
saturationPhases(phases) ==
  IF isArray(phases) THEN [ok |-> TRUE, list |-> IF phases.a = <<>> THEN <<Num(1)>> ELSE phases.a]
  ELSE IF phases.t = "string" /\ phases.s = <<>> THEN [ok |-> TRUE, list |-> <<Num(1)>>]
  ELSE [ok |-> FALSE, list |-> <<>>]

\* map[phase] = (map[phase] || 0) + amount
addToPhase(map, phase, amount) ==
  mapSet(map, toStr(phase), jsAdd(OrElse(mapGet(map, toStr(phase)), Num(0)), amount))

\* phases.forEach(phase => map[phase] = (map[phase] || 0) + amount)
RECURSIVE addToPhases(_, _, _, _)
addToPhases(map, phases, i, amount) ==
  IF i > Len(phases) THEN map
  ELSE addToPhases(addToPhase(map, phases[i], amount), phases, i + 1, amount)

\* one worker of the capacity loop, slots that do not parse counting as phase 1
addCapacityUnparsed(map, parsed, maxLoad) ==
  IF parsed.ok /\ isArray(parsed.v) THEN addToPhases(map, parsed.v.a, 1, maxLoad)
  ELSE addToPhases(map, <<Num(1)>>, 1, maxLoad)

\* one worker of the capacity loop (lines 345-358): a worker whose slots do not
\* parse to an array adds nothing
addCapacity(map, parsed, maxLoad) ==
  IF parsed.ok /\ isArray(parsed.v) THEN addToPhases(map, parsed.v.a, 1, maxLoad) ELSE map

\* the capacity map: MaxLoadPerPhase summed over every listed phase of every
\* worker whose slots parse to an array
RECURSIVE phaseCapacityFrom(_, _, _)
phaseCapacityFrom(map, workers, i) ==
  IF i > Len(workers) THEN map
  ELSE phaseCapacityFrom(addCapacity(map, parseSlots(workers[i]), maxLoadOf(workers[i])), workers, i + 1)
phaseCapacityOf(workers) == phaseCapacityFrom(<<>>, workers, 1)

\* the end of one iteration of the demand loop (lines 382-388); phases is
\* saturationPhases of what the task's PreferredPhases parsed to
chargeDemand(sm, phases, duration) ==
  IF ~phases.ok THEN Throw(sm)
  ELSE [sm EXCEPT !.map = addToPhases(sm.map, phases.list, 1, duration)]

\* one iteration of the demand loop (lines 362-389): sm.map is the demand map
demandOfTask(sm, preferredPhases, duration) ==
  IF typeof(preferredPhases) # "string" THEN Throw(sm)
  ELSE chargeDemand(sm, saturationPhases(saturationParse(preferredPhases.s)), duration)
addDemand(sm, task) ==
  demandOfTask(sm, OrElse(Get(task, "PreferredPhases"), Str(<<>>)), OrElse(Get(task, "Duration"), Num(1)))

saturationFinding(phase, demand, capacity) ==
  [type |-> "phase_slot_saturation", severity |-> "error",
   message |-> Msg("Phase ${0} is overloaded: ${1} task duration units vs ${2} worker capacity",
                   <<toStr(phase), toStr(demand), toStr(capacity)>>),
   entityType |-> "tasks", field |-> "PreferredPhases",
   suggestion |-> Msg("Redistribute tasks from phase ${0} or increase worker capacity", <<toStr(phase)>>)]

\* the comparison of one phase, with demand >= capacity
comparePhaseInclusive(st, phase, demand, capacity) ==
  IF ~Lt(demand, capacity) THEN addValidationResult(st, saturationFinding(phase, demand, capacity)) ELSE st

\* the comparison of one phase (lines 392-405)
comparePhase(st, phase, demand, capacity) ==
  IF Gt(demand, capacity) THEN addValidationResult(st, saturationFinding(phase, demand, capacity)) ELSE st

\* Object.keys(phaseDemand).forEach(...) (lines 391-406)
compareDemand(st, phaseDemand, phaseCapacity) ==
  forEach(st, objectKeys(phaseDemand), LAMBDA s1, phaseStr :
    comparePhase(s1, parseInt(phaseStr),
                 mapGet(phaseDemand, toStr(parseInt(phaseStr))),
                 OrElse(mapGet(phaseCapacity, toStr(parseInt(phaseStr))), Num(0))))

\* the comparison runs once the demand loop has ended without a throw
afterDemand(demandRun, phaseCapacity) ==
  IF demandRun.ex THEN dropMap(demandRun)
  ELSE compareDemand(dropMap(demandRun), demandRun.map, phaseCapacity)

\* Validation 11: phase-slot saturation
validatePhaseSlotSaturation(st, workers, tasks) ==
  IF st.ex THEN st
  ELSE afterDemand(forEach(withMap(st, <<>>), tasks, addDemand), phaseCapacityOf(workers))

(***************************************************************************)
(* Rule-consistency validators.  A rule is                                  *)
(*   [id, type, isActive, parameters]                                       *)
(* with parameters a function from the parameter names it has to their      *)
(* values: taskIds a sequence of task ids, taskId a task id, allowedPhases  *)
(* an array value.                                                          *)
(***************************************************************************)
\* rule.parameters?.taskIds || []
taskIdsOf(rule) == IF "taskIds" \in DOMAIN rule.parameters THEN rule.parameters["taskIds"] ELSE <<>>

\* rule.parameters?.taskId
taskIdOf(rule) == IF "taskId" \in DOMAIN rule.parameters THEN rule.parameters["taskId"] ELSE Undef

\* rule.parameters?.allowedPhases || []
allowedPhasesOf(rule) ==
  IF "allowedPhases" \in DOMAIN rule.parameters THEN OrElse(rule.parameters["allowedPhases"], Arr(<<>>))
  ELSE Arr(<<>>)

\* the indexes of the rules of the type, active or not
rulesOfType(rules, type) == filterIndex([i \in DOMAIN rules |-> i], LAMBDA i : rules[i].type = type)

\* rules.filter(rule => rule.type === type && rule.isActive), as indexes into rules
activeRules(rules, type) ==
  filterIndex([i \in DOMAIN rules |-> i], LAMBDA i : rules[i].type = type /\ rules[i].isActive)

\* graph[node] || new Set()
neighborsOf(graph, node) == IF mapHas(graph, toStr(node)) THEN mapGet(graph, toStr(node)) ELSE <<>>

\* one task id of one rule (lines 422-428): its node, with the other task ids
\* of the rule added to its set
addNode(graph, taskIds, taskId1) ==
  mapSet(graph, toStr(taskId1),
         unique(neighborsOf(graph, taskId1) \o SelectSeq(taskIds, LAMBDA taskId2 : taskId1 # taskId2)))

RECURSIVE addNodes(_, _, _)
addNodes(graph, taskIds, i) ==
  IF i > Len(taskIds) THEN graph ELSE addNodes(addNode(graph, taskIds, taskIds[i]), taskIds, i + 1)

\* the co-run graph (lines 416-430): for every task id of an active coRun rule,
\* in first-seen order, the other task ids of its rules, in first-seen order
RECURSIVE coRunGraphFrom(_, _, _, _)
coRunGraphFrom(graph, rules, coRunRules, r) ==
  IF r > Len(coRunRules) THEN graph
  ELSE coRunGraphFrom(addNodes(graph, taskIdsOf(rules[coRunRules[r]]), 1), rules, coRunRules, r + 1)
coRunGraph(rules) == coRunGraphFrom(<<>>, rules, activeRules(rules, "coRun"), 1)

Arrow == <<" ", "->", " ">>

\* path.slice(path.indexOf(node)).concat([node]): indexOf is -1 when node is not
\* on the path, and slice(-1) is the last element
cycleOf(path, node) ==
  LET cycleStart == indexOf(path, node)
  IN  (IF cycleStart = 0 THEN SubSeq(path, Len(path), Len(path))
       ELSE SubSeq(path, cycleStart, Len(path))) \o <<node>>

circularFinding(cycle) ==
  [type |-> "circular_corun_group", severity |-> "error",
   message |-> Msg("Circular co-run dependency detected: ${0}",
                   <<join([i \in DOMAIN cycle |-> toStr(cycle[i])], Arrow)>>),
   entityType |-> "tasks",
   suggestion |-> Msg("Remove conflicting co-run rules to break the cycle", <<>>)]

\* the traversal state: the visited set, the recursion stack, the findings,
\* and the value the last hasCycle call returned
Dfs(visited, stack, res, ret) == [visited |-> visited, stack |-> stack, res |-> res, ret |-> ret]

RECURSIVE hasCycle(_, _, _, _)
RECURSIVE visitNeighbors(_, _, _, _, _, _)

\* a variant of hasCycle that consults visited before the recursion stack
visitedFirst(graph, ds, node, path) ==
  IF node \in ds.visited THEN [ds EXCEPT !.ret = FALSE]
  ELSE IF node \in ds.stack
  THEN Dfs(ds.visited, ds.stack, Append(ds.res, circularFinding(cycleOf(path, node))), TRUE)
  ELSE LET entered == Dfs(ds.visited \cup {node}, ds.stack \cup {node}, ds.res, FALSE)
           after == visitNeighbors(graph, entered, node, path, neighborsOf(graph, node), 1)
       IN  IF after.ret THEN after
           ELSE Dfs(after.visited, after.stack \ {node}, after.res, FALSE)

\* a variant of hasCycle that takes the node off the recursion stack on every return
unwindsOnCycle(graph, ds, node, path) ==
  IF node \in ds.stack
  THEN Dfs(ds.visited, ds.stack, Append(ds.res, circularFinding(cycleOf(path, node))), TRUE)
  ELSE IF node \in ds.visited THEN [ds EXCEPT !.ret = FALSE]
  ELSE LET entered == Dfs(ds.visited \cup {node}, ds.stack \cup {node}, ds.res, FALSE)
           after == visitNeighbors(graph, entered, node, path, neighborsOf(graph, node), 1)
       IN  Dfs(after.visited, after.stack \ {node}, after.res, after.ret)

\* hasCycle(node, path) (lines 435-464)
hasCycle(graph, ds, node, path) ==
  IF node \in ds.stack
  THEN Dfs(ds.visited, ds.stack, Append(ds.res, circularFinding(cycleOf(path, node))), TRUE)
  ELSE IF node \in ds.visited THEN [ds EXCEPT !.ret = FALSE]
  ELSE LET entered == Dfs(ds.visited \cup {node}, ds.stack \cup {node}, ds.res, FALSE)
           after == visitNeighbors(graph, entered, node, path, neighborsOf(graph, node), 1)
       IN  IF after.ret THEN after
           ELSE Dfs(after.visited, after.stack \ {node}, after.res, FALSE)

\* for (const neighbor of neighbors) if (hasCycle(neighbor, [...path, node])) return true
visitNeighbors(graph, ds, node, path, neighbors, i) ==
  IF i > Len(neighbors) THEN [ds EXCEPT !.ret = FALSE]
  ELSE LET d == hasCycle(graph, ds, neighbors[i], Append(path, node))
       IN  IF d.ret THEN d ELSE visitNeighbors(graph, d, node, path, neighbors, i + 1)

\* Object.keys(graph).forEach(taskId => { if (!visited.has(taskId)) hasCycle(taskId, []) })
RECURSIVE visitRoots(_, _, _, _)
visitRoots(graph, ds, keys, i) ==
  IF i > Len(keys) THEN ds
  ELSE IF Str(keys[i]) \in ds.visited THEN visitRoots(graph, ds, keys, i + 1)
  ELSE visitRoots(graph, hasCycle(graph, ds, Str(keys[i]), <<>>), keys, i + 1)

\* the traversal of a graph, from an empty visited set and recursion stack
traverse(graph, res) == visitRoots(graph, Dfs({}, {}, res, FALSE), objectKeys(graph), 1)

\* Validation 12: circular co-run groups
validateCircularCoRunGroups(st, rules) ==
  IF st.ex \/ activeRules(rules, "coRun") = <<>> THEN st
  ELSE [st EXCEPT !.res = traverse(coRunGraph(rules), st.res).res]

AllPhases == Arr(<<Num(1), Num(2), Num(3), Num(4), Num(5)>>)

\* the phases the conflict check reads off a truthy PreferredPhases string
\* (lines 497-514)
conflictParse(preferredPhases) ==
  IF includes(preferredPhases, "[") /\ includes(preferredPhases, "]")
  THEN (IF JSONparse(Str(preferredPhases)).ok THEN JSONparse(Str(preferredPhases)).v ELSE AllPhases)
  ELSE IF includes(preferredPhases, "-")
  THEN LET b == dashBounds(preferredPhases)
       IN  IF b.start.t # "NaN" /\ b.end.t # "NaN" THEN rangeArray(b.start.n, b.end.n) ELSE Arr(<<>>)
  ELSE AllPhases

\* tasks.find(t => t.TaskID === taskId)?.PreferredPhases
preferredPhasesOfTask(tasks, taskId) ==
  LET hits == SelectSeq(tasks, LAMBDA t : Get(t, "TaskID") = taskId)
  IN  IF hits = <<>> THEN Undef ELSE Get(hits[1], "PreferredPhases")

\* a variant of the find of lines 488-490 that takes the last matching rule
lastPhaseWindow(rules, taskId) ==
  LET hits == SelectSeq(activeRules(rules, "phaseWindow"), LAMBDA j : taskIdOf(rules[j]) = taskId)
  IN  IF hits = <<>> THEN 0 ELSE hits[Len(hits)]

\* phaseWindowRules.find(rule => rule.parameters?.taskId === taskId), as an index
\* into rules: 0 when there is none
findPhaseWindow(rules, taskId) ==
  LET hits == SelectSeq(activeRules(rules, "phaseWindow"), LAMBDA j : taskIdOf(rules[j]) = taskId)
  IN  IF hits = <<>> THEN 0 ELSE hits[1]

\* the phases of a member no phaseWindow rule targets (lines 495-519):
\* [ok, phases, from]; ok = FALSE is the TypeError of a PreferredPhases that has
\* no includes
ownPhases(preferred) ==
  IF ~Truthy(preferred) THEN [ok |-> TRUE, phases |-> AllPhases, from |-> 0]
  ELSE IF typeof(preferred) # "string" THEN [ok |-> FALSE, phases |-> Arr(<<>>), from |-> 0]
  ELSE [ok |-> TRUE, phases |-> conflictParse(preferred.s), from |-> 0]

\* the phases of a member the phaseWindow rule j targets (line 493); from is j
\* when the phases are the rule's own allowedPhases array
windowPhases(rules, j) ==
  [ok |-> TRUE, phases |-> allowedPhasesOf(rules[j]),
   from |-> IF "allowedPhases" \in DOMAIN rules[j].parameters /\ Truthy(rules[j].parameters["allowedPhases"])
            THEN j ELSE 0]

\* the allowed phases of one member of a coRun rule (lines 487-520)
phasesFrom(rules, tasks, taskId, j) ==
  IF j # 0 THEN windowPhases(rules, j) ELSE ownPhases(preferredPhasesOfTask(tasks, taskId))
memberPhases(rules, tasks, taskId) == phasesFrom(rules, tasks, taskId, findPhaseWindow(rules, taskId))

\* does the string s hold the string w ?
includesString(s, w) == \E i \in 1..(Len(s) + 1) : wordAt(s, i, w)

\* otherPhases.includes(phase): [ok, has]; ok = FALSE when the value has no includes
phasesInclude(otherPhases, phase) ==
  IF isArray(otherPhases) THEN [ok |-> TRUE, has |-> \E i \in DOMAIN otherPhases.a : otherPhases.a[i] = phase]
  ELSE IF otherPhases.t = "string" THEN [ok |-> TRUE, has |-> includesString(otherPhases.s, toStr(phase))]
  ELSE [ok |-> FALSE, has |-> FALSE]

\* a variant of line 529 that filters the array in place, as a splice would
filterInPlace(commonPhases, otherPhases) ==
  IF ~isArray(commonPhases) \/ (commonPhases.a # <<>> /\ ~phasesInclude(otherPhases, commonPhases.a[1]).ok)
  THEN [ok |-> FALSE, result |-> commonPhases, receiver |-> commonPhases]
  ELSE [ok |-> TRUE,
        result |-> Arr(SelectSeq(commonPhases.a, LAMBDA phase : phasesInclude(otherPhases, phase).has)),
        receiver |-> Arr(SelectSeq(commonPhases.a, LAMBDA phase : phasesInclude(otherPhases, phase).has))]

\* commonPhases.filter(phase => otherPhases.includes(phase)) (line 529):
\* [ok, result, receiver]: the new array, and the receiver as the call leaves it;
\* ok = FALSE when commonPhases has no filter or the callback throws
filterCommon(commonPhases, otherPhases) ==
  IF ~isArray(commonPhases) \/ (commonPhases.a # <<>> /\ ~phasesInclude(otherPhases, commonPhases.a[1]).ok)
  THEN [ok |-> FALSE, result |-> commonPhases, receiver |-> commonPhases]
  ELSE [ok |-> TRUE,
        result |-> Arr(SelectSeq(commonPhases.a, LAMBDA phase : phasesInclude(otherPhases, phase).has)),
        receiver |-> commonPhases]

\* rules with the allowedPhases array of rule j holding the value v
storeAllowedPhases(rules, j, v) ==
  IF j = 0 THEN rules
  ELSE [rules EXCEPT ![j] = [@ EXCEPT !.parameters = [@ EXCEPT !["allowedPhases"] = v]]]

conflictFinding(coRunTasks) ==
  [type |-> "conflicting_rules", severity |-> "error",
   message |-> Msg("Co-run rule for tasks [${0}] conflicts with phase-window constraints - no common phases available",
                   <<join([i \in DOMAIN coRunTasks |-> toStr(coRunTasks[i])], CommaSpace)>>),
   entityType |-> "tasks",
   suggestion |-> Msg("Modify phase-window rules or remove co-run constraint for conflicting tasks", <<>>)]

\* taskPhaseConstraints[taskId] = ... : the constraints [ok, phases, from] with
\* the member m of taskId recorded; from maps each key to the phaseWindow rule
\* whose array its phases are
recordMember(built, taskId, m) ==
  IF ~m.ok THEN [built EXCEPT !.ok = FALSE]
  ELSE [ok |-> TRUE, phases |-> mapSet(built.phases, toStr(taskId), m.phases),
        from |-> mapSet(built.from, toStr(taskId), Num(m.from))]

\* coRunTasks.forEach(taskId => ...) (lines 487-521): stops at a throw
RECURSIVE buildConstraints(_, _, _, _, _)
buildConstraints(built, rules, tasks, coRunTasks, i) ==
  IF i > Len(coRunTasks) \/ ~built.ok THEN built
  ELSE buildConstraints(recordMember(built, coRunTasks[i], memberPhases(rules, tasks, coRunTasks[i])),
                        rules, tasks, coRunTasks, i + 1)

\* one step of the intersection loop (line 529): cur is [ok, common, alias, rules],
\* alias the phaseWindow rule whose array commonPhases is; r is what the filter
\* call gives
afterFilter(cur, r) ==
  [ok |-> r.ok, common |-> r.result, alias |-> 0,
   rules |-> storeAllowedPhases(cur.rules, cur.alias, r.receiver)]

\* for (let i = 1; i < taskIds.length; i++) ... (lines 527-530)
RECURSIVE intersect(_, _, _, _)
intersect(cur, phases, taskIds, i) ==
  IF i > Len(taskIds) \/ ~cur.ok THEN cur
  ELSE intersect(afterFilter(cur, filterCommon(cur.common, OrElse(mapGet(phases, taskIds[i]), Arr(<<>>)))),
                 phases, taskIds, i + 1)

\* commonPhases.length
lengthOf(v) == IF isArray(v) THEN Len(v.a) ELSE IF v.t = "string" THEN Len(v.s) ELSE -1

\* lines 532-540, after the intersection loop
reportConflict(st, coRunTasks, done) ==
  IF ~done.ok THEN Throw([st EXCEPT !.rules = done.rules])
  ELSE IF lengthOf(done.common) = 0
  THEN addValidationResult([st EXCEPT !.rules = done.rules], conflictFinding(coRunTasks))
  ELSE [st EXCEPT !.rules = done.rules]

\* lines 523-541, once taskPhaseConstraints is built
intersectConstraints(st, coRunTasks, built, taskIds) ==
  IF ~built.ok THEN Throw(st)
  ELSE IF Len(taskIds) <= 1 THEN st
  ELSE reportConflict(st, coRunTasks,
         intersect([ok |-> TRUE, common |-> OrElse(mapGet(built.phases, taskIds[1]), Arr(<<>>)),
                    alias |-> mapGet(built.from, taskIds[1]).n, rules |-> st.rules],
                   built.phases, taskIds, 2))

constraintsOf(st, tasks, coRunTasks) ==
  buildConstraints([ok |-> TRUE, phases |-> <<>>, from |-> <<>>], st.rules, tasks, coRunTasks, 1)

withConstraints(st, coRunTasks, built) ==
  intersectConstraints(st, coRunTasks, built, objectKeys(built.phases))

\* one coRun rule of the conflict check (lines 482-542)
checkCoRunRule(st, tasks, coRunRule) ==
  withConstraints(st, taskIdsOf(coRunRule), constraintsOf(st, tasks, taskIdsOf(coRunRule)))

\* Validation 13: co-run rules against phase-window constraints
validateRuleConflicts(st, rules, tasks) ==
  LET coRunRules == activeRules(rules, "coRun")
      phaseWindowRules == activeRules(rules, "phaseWindow")
  IN  IF st.ex \/ coRunRules = <<>> \/ phaseWindowRules = <<>> THEN st
      ELSE forEach(st, coRunRules, LAMBDA s1, r : checkCoRunRule(s1, tasks, s1.rules[r]))

\* the engine object: its one field (line 5), which refers to the array object
\* `array` whose elements are validationResults
Engine(validationResults, array) == [validationResults |-> validationResults, array |-> array]

\* a variant of line 11 in which the accumulator is never reset
keepResults(this) == this

\* a variant of line 11 that empties the array in place (validationResults.length = 0)
clearInPlace(this) == [this EXCEPT !.validationResults = <<>>]

(***************************************************************************)
(* The entry point                                                          *)
(***************************************************************************)
\* line 11: this.validationResults = []; the literal is a new array object,
\* another one than the array the field referred to
freshResults(this) == [this EXCEPT !.validationResults = <<>>, !.array = 1 - @]

\* data.clients, data.workers, data.tasks: a collection is supplied when data
\* has the key (an array, even an empty one, is truthy)
has(data, collection) == collection \in DOMAIN data

\* lines 14-19
clientChecks(st, data) ==
  IF has(data, "clients")
  THEN validateAttributesJSON(
         validatePriorityLevels(
           validateUniqueIds(
             validateRequiredColumns(st, data["clients"], "clients"),
             data["clients"], "clients"),
           data["clients"]),
         data["clients"])
  ELSE st

\* lines 21-26
workerChecks(st, data) ==
  IF has(data, "workers")
  THEN validateOverloadedWorkers(
         validateAvailableSlots(
           validateUniqueIds(
             validateRequiredColumns(st, data["workers"], "workers"),
             data["workers"], "workers"),
           data["workers"]),
         data["workers"])
  ELSE st

\* lines 28-32
taskChecks(st, data) ==
  IF has(data, "tasks")
  THEN validateTaskDuration(
         validateUniqueIds(
           validateRequiredColumns(st, data["tasks"], "tasks"),
           data["tasks"], "tasks"),
         data["tasks"])
  ELSE st

\* lines 35-43
crossChecks(st, data) ==
  LET refs == IF has(data, "clients") /\ has(data, "tasks")
              THEN validateTaskReferences(st, data["clients"], data["tasks"])
              ELSE st
  IN  IF has(data, "workers") /\ has(data, "tasks")
      THEN validatePhaseSlotSaturation(
             validateMaxConcurrency(
               validateSkillCoverage(refs, data["workers"], data["tasks"]),
               data["workers"], data["tasks"]),
             data["workers"], data["tasks"])
      ELSE refs

\* lines 46-47
ruleChecks(st, data, rules) ==
  validateRuleConflicts(
    validateCircularCoRunGroups(st, rules),
    rules, IF has(data, "tasks") THEN data["tasks"] ELSE <<>>)

\* a variant of validateData that runs the rule checks before the cross-entity checks
rulesBeforeCross(this, data, rules) ==
  crossChecks(
    ruleChecks(
      taskChecks(
        workerChecks(
          clientChecks(Run(freshResults(this).validationResults, FALSE, rules), data),
          data),
        data),
      data, rules),
    data)

\* this.validateData(data, rules): the run when the call ends; run.res is the
\* field of the engine, and the list returned unless run.ex
validateData(this, data, rules) ==
  ruleChecks(
    crossChecks(
      taskChecks(
        workerChecks(
          clientChecks(Run(freshResults(this).validationResults, FALSE, rules), data),
          data),
        data),
      data),
    data, rules)

(***************************************************************************)
(* The state: one engine and its caller                                     *)
(***************************************************************************)
VARIABLES
  validationResults,  \* the engine's field
  inData, inRules,    \* the arguments of the last call, as they were passed
  data, rules,        \* the same objects, as the call has left them
  outcome,            \* the last call: [status, list]
  repeat,             \* the call before it, when it had the same arguments
  dfs,                \* the co-run traversal of a call, taken step by step
  held,               \* the list a caller kept from the call before the last one
  dash                \* the dashboard: its dataState, the data grid shown, and the last operation

vars == <<validationResults, inData, inRules, data, rules, outcome, repeat, dfs, held, dash>>

NoOutcome == [status |-> "none", list |-> <<>>]
NoData == [c \in {} |-> <<>>]

\* no traversal under way
IdleDfs ==
  [phase |-> "idle", rules |-> <<>>, graph |-> <<>>, keys |-> <<>>, root |-> 1, frames |-> <<>>,
   unwinding |-> FALSE, visited |-> {}, stack |-> {}, found |-> <<>>, entered |-> <<>>]

\* nothing kept: the engine's field refers to array 0 (line 5)
NoneHeld == [array |-> 0, was |-> <<>>, now |-> <<>>]

\* useState<DataState>({...}): the dashboard's state when it is mounted
InitialDataState ==
  [clients |-> <<>>, workers |-> <<>>, tasks |-> <<>>, validationResults |-> <<>>, businessRules |-> <<>>,
   searchResults |-> <<>>, filteredView |-> FALSE, isValidating |-> FALSE]

\* useState('data'): the overview tab is shown; a data grid that is mounted
\* edits no row: editingRow = null, editingData = {}
NoEdit == [tab |-> "data", editingRow |-> 0, editingData |-> [f \in {} |-> Undef]]

\* no operation yet
NoOperation == [op |-> "none", entityType |-> "", id |-> Undef, before |-> InitialDataState]

InitialDash == [dataState |-> InitialDataState, grid |-> NoEdit, last |-> NoOperation]

Init ==
  /\ validationResults = <<>>
  /\ inData = NoData
  /\ inRules = <<>>
  /\ data = NoData
  /\ rules = <<>>
  /\ outcome = NoOutcome
  /\ repeat = NoOutcome
  /\ dfs = IdleDfs
  /\ held = NoneHeld
  /\ dash = InitialDash

\* what the caller gets from a run: the list, or the exception
outcomeOf(run) ==
  IF run.ex THEN [status |-> "threw", list |-> <<>>] ELSE [status |-> "returned", list |-> run.res]

\* the state after a call with arguments d, r that ran as run
Called(d, r, run) ==
  /\ validationResults' = run.res
  /\ outcome' = outcomeOf(run)
  /\ inData' = d
  /\ inRules' = r
  /\ data' = d
  /\ rules' = run.rules
  /\ repeat' = IF outcome.status # "none" /\ inData = d /\ inRules = r THEN outcome ELSE NoOutcome
  /\ UNCHANGED <<dfs, dash>>

\* one call engine.validateData(d, r)
Call(d, r) == Called(d, r, validateData(Engine(validationResults, held.array), d, r)) /\ UNCHANGED held

\* const earlier = engine.validateData(..); engine.validateData(d, r): the
\* caller keeps the list of the call before. The call writes to the array
\* `array` (line 53 pushes to the field's array, line 49 returns it); the kept
\* list is the array held.array, and shows the writes when it is the same object
keptAfter(kept, array, earlier, run) ==
  [array |-> array, was |-> earlier.list,
   now |-> IF earlier.status = "returned" /\ array = kept.array THEN run.res ELSE earlier.list]

CallHolding(d, r) ==
  /\ Called(d, r, validateData(Engine(validationResults, held.array), d, r))
  /\ held' = keptAfter(held, freshResults(Engine(validationResults, held.array)).array, outcome,
                       validateData(Engine(validationResults, held.array), d, r))

(***************************************************************************)
(* Inputs                                                                   *)
(***************************************************************************)
\* the record with the given <<field, value>> pairs
Entity(pairs) == [k \in {p[1] : p \in pairs} |-> (CHOOSE p \in pairs : p[1] = k)[2]]

\* the data argument with the given <<collection, records>> pairs
Data(pairs) == Entity(pairs)

\* the id <letter><n>, as "T1"
Id(letter, n) == Str(<<letter>> \o natToStr(n))

\* all sequences over S of length at most n
SeqsUpTo(S, n) == UNION {[1..k -> S] : k \in 0..n}

coRunRule(id, taskIds, isActive) ==
  [id |-> id, type |-> "coRun", isActive |-> isActive, parameters |-> Entity({<<"taskIds", taskIds>>})]

phaseWindowRule(id, taskId, allowedPhases, isActive) ==
  [id |-> id, type |-> "phaseWindow", isActive |-> isActive,
   parameters |-> Entity({<<"taskId", taskId>>, <<"allowedPhases", Arr(allowedPhases)>>})]

\* --- the mixed inputs of Spec: every group of checks has something to report
MaxRecords == 2

cGood == Entity({<<"ClientID", Id("C", 1)>>, <<"ClientName", Str(<<"a">>)>>, <<"PriorityLevel", Num(3)>>,
                 <<"RequestedTaskIDs", Str(<<"T", "1">>)>>})
cBad == Entity({<<"ClientID", Id("C", 2)>>, <<"ClientName", Str(<<"b">>)>>, <<"PriorityLevel", Num(7)>>,
                <<"RequestedTaskIDs", Str(<<"T", "1", ",", " ", "T", "9">>)>>,
                <<"AttributesJSON", Str(<<"x">>)>>})
cJson == Entity({<<"ClientID", Id("C", 3)>>, <<"PriorityLevel", Num(1)>>,
                 <<"RequestedTaskIDs", Str(<<>>)>>, <<"AttributesJSON", Str(<<"{">>)>>})

wGood == Entity({<<"WorkerID", Id("W", 1)>>, <<"WorkerName", Str(<<"a">>)>>, <<"Skills", Str(<<"a", ",", "B">>)>>,
                 <<"AvailableSlots", Str(<<"[", "1", ",", "2", "]">>)>>, <<"MaxLoadPerPhase", Num(1)>>})
wOver == Entity({<<"WorkerID", Id("W", 2)>>, <<"WorkerName", Str(<<"b">>)>>, <<"Skills", Str(<<"b">>)>>,
                 <<"AvailableSlots", Str(<<"[", "1", "]">>)>>, <<"MaxLoadPerPhase", Num(5)>>})
wBad == Entity({<<"WorkerID", Id("W", 3)>>, <<"WorkerName", Str(<<"c">>)>>,
                <<"AvailableSlots", Str(<<"[", "1">>)>>, <<"MaxLoadPerPhase", Num(2)>>})
wObject == Entity({<<"WorkerID", Id("W", 4)>>, <<"WorkerName", Str(<<"d">>)>>, <<"Skills", Str(<<"a">>)>>,
                   <<"AvailableSlots", Str(<<"{", "}">>)>>, <<"MaxLoadPerPhase", Num(1)>>})
wZero == Entity({<<"WorkerID", Id("W", 5)>>, <<"WorkerName", Str(<<"e">>)>>, <<"Skills", Str(<<"a">>)>>,
                 <<"AvailableSlots", Str(<<"[", "0", "]">>)>>, <<"MaxLoadPerPhase", Num(1)>>})

tGood == Entity({<<"TaskID", Id("T", 1)>>, <<"TaskName", Str(<<"a">>)>>, <<"Duration", Num(1)>>,
                 <<"RequiredSkills", Str(<<"a">>)>>, <<"PreferredPhases", Str(<<"[", "1", "]">>)>>})
tBad == Entity({<<"TaskID", Id("T", 2)>>, <<"TaskName", Str(<<"b">>)>>, <<"Duration", Num(-1)>>,
                <<"RequiredSkills", Str(<<"b", ",", " ", "c">>)>>, <<"PreferredPhases", Str(<<"2", "-", "3">>)>>,
                <<"MaxConcurrent", Num(3)>>})
tBig == Entity({<<"TaskID", Id("T", 3)>>, <<"Duration", Num(9)>>, <<"RequiredSkills", Str(<<>>)>>})

rCo == coRunRule("r1", <<Id("T", 1), Id("T", 2)>>, TRUE)
rWindow == phaseWindowRule("r2", Id("T", 1), <<Num(1), Num(4)>>, TRUE)
rOff == coRunRule("r3", <<Id("T", 1), Id("T", 2), Id("T", 3)>>, FALSE)

BaseData == Data({<<"clients", <<cBad>>>>, <<"workers", <<wOver>>>>, <<"tasks", <<tBad, tGood>>>>})
BaseRules == <<rCo, rWindow>>

\* BaseData with one collection left out, or replaced by any list of records
MixedData ==
  UNION {
    {[c \in DOMAIN BaseData \ {"clients"} |-> BaseData[c]]},
    {[BaseData EXCEPT !["clients"] = xs] : xs \in SeqsUpTo({cGood, cBad, cJson}, MaxRecords)},
    {[c \in DOMAIN BaseData \ {"workers"} |-> BaseData[c]]},
    {[BaseData EXCEPT !["workers"] = xs] : xs \in SeqsUpTo({wGood, wOver, wBad}, MaxRecords)},
    {[BaseData EXCEPT !["workers"] = <<w>>] : w \in {wObject, wZero}},
    {[c \in DOMAIN BaseData \ {"tasks"} |-> BaseData[c]]},
    {[BaseData EXCEPT !["tasks"] = xs] : xs \in SeqsUpTo({tGood, tBad, tBig}, MaxRecords)}}

MixedInputs ==
  {<<d, BaseRules>> : d \in MixedData}
    \cup {<<BaseData, rs>> : rs \in SeqsUpTo({rCo, rWindow, rOff}, MaxRecords)}

Next == \E in \in MixedInputs : Call(in[1], in[2])

Spec == Init /\ [][Next]_vars

\* --- loosely typed and malformed field values
MalformedClients ==
  {Entity({<<"ClientID", Id("C", 1)>>, <<"AttributesJSON", Str(attrs)>>}) :
     attrs \in {<<"{", "}">>, <<"{">>, <<"[", "1", ",", "]">>}}

MalformedWorkers ==
  {Entity({<<"WorkerID", Id("W", 1)>>, <<"AvailableSlots", Str(slots)>>, <<"Skills", skills>>,
           <<"MaxLoadPerPhase", Num(1)>>}) :
     slots \in {<<"[", "1", "]">>, <<"[", "1">>}, skills \in {Str(<<"a">>), Num(3)}}

MalformedTasks ==
  {Entity({<<"TaskID", Id("T", 1)>>, <<"PreferredPhases", phases>>, <<"RequiredSkills", skills>>}) :
     phases \in {Str(<<"[", "1", "]">>), Str(<<"[", "1", ",", "]">>),
                 Str(<<"{", "\"", "a", "\"", ":", "[", "1", "]", "}">>), Num(2)},
     skills \in {Str(<<"a">>), Num(5)}}

MalformedInputs ==
  {<<Data({<<"clients", <<c>>>>, <<"workers", <<w>>>>, <<"tasks", <<t>>>>}), <<>>>> :
     c \in MalformedClients, w \in MalformedWorkers, t \in MalformedTasks}

NextMalformed == \E in \in MalformedInputs : Call(in[1], in[2])

SpecMalformed == Init /\ [][NextMalformed]_vars

\* --- priorities and durations around their limits
MaxPriority == 6
MaxDuration == 3

priorityClient(n, priority) ==
  Entity({<<"ClientID", Id("C", n)>>, <<"ClientName", Str(<<"a">>)>>, <<"PriorityLevel", priority>>,
          <<"RequestedTaskIDs", Str(<<>>)>>})

durationTask(n, duration) ==
  Entity({<<"TaskID", Id("T", n)>>, <<"TaskName", Str(<<"a">>)>>, <<"Duration", duration>>,
          <<"RequiredSkills", Str(<<>>)>>})

RangeClients ==
  {<<priorityClient(1, Num(p))>> : p \in -1..MaxPriority}
    \cup {<<priorityClient(1, Num(3)), priorityClient(2, Num(p))>> : p \in -1..MaxPriority}

RangeTasks ==
  {<<durationTask(1, Num(d))>> : d \in -1..MaxDuration}
    \cup {<<durationTask(1, Num(1)), durationTask(2, Num(d))>> : d \in -1..MaxDuration}

RangeInputs ==
  {<<Data({<<"clients", cs>>}), <<>>>> : cs \in RangeClients}
    \cup {<<Data({<<"tasks", ts>>}), <<>>>> : ts \in RangeTasks}
    \cup {<<Data({<<"clients", cs>>, <<"tasks", ts>>}), <<>>>> :
            cs \in {<<priorityClient(1, Num(p))>> : p \in -1..MaxPriority},
            ts \in {<<durationTask(1, Num(d))>> : d \in -1..MaxDuration}}

NextRanges == \E in \in RangeInputs : Call(in[1], in[2])

SpecRanges == Init /\ [][NextRanges]_vars

\* --- tasks with and without workers
demandTask(duration, phases) ==
  Entity({<<"TaskID", Id("T", 1)>>, <<"TaskName", Str(<<"a">>)>>, <<"RequiredSkills", Str(<<>>)>>}
           \cup {<<"Duration", Num(duration[i])>> : i \in DOMAIN duration}
           \cup {<<"PreferredPhases", Str(phases[i])>> : i \in DOMAIN phases})

\* a duration or none, a PreferredPhases string or none
DemandTasks ==
  {demandTask(duration, phases) :
     duration \in {<<>>} \cup {<<d>> : d \in -1..MaxDuration},
     phases \in {<<>>, <<<<"1", "-", "2">>>>, <<<<"[", "2", "]">>>>, <<<<"2", "-", "1">>>>}}

SaturationInputs ==
  {<<Data({<<"tasks", <<t>>>>} \cup {<<"workers", ws[i]>> : i \in DOMAIN ws}), <<>>>> :
     t \in DemandTasks, ws \in {<<>>, <<<<>>>>, <<<<wGood>>>>}}

NextSaturation == \E in \in SaturationInputs : Call(in[1], in[2])

SpecSaturation == Init /\ [][NextSaturation]_vars

\* --- one coRun rule over two tasks, with and without phaseWindow rules
phasesTask(n, phases) ==
  Entity({<<"TaskID", Id("T", n)>>, <<"TaskName", Str(<<"a">>)>>, <<"Duration", Num(1)>>,
          <<"RequiredSkills", Str(<<>>)>>}
           \cup {<<"PreferredPhases", Str(phases[i])>> : i \in DOMAIN phases})

ConflictTasks ==
  {<<phasesTask(1, p1), phasesTask(2, p2)>> :
     p1 \in {<<>>, <<<<"1", "-", "2">>>>, <<<<"[", "3", "]">>>>},
     p2 \in {<<<<"2", "-", "3">>>>, <<<<"[", "1", "]">>>>, <<<<"3", "-", "1">>>>}}

ConflictRules ==
  {<<coRunRule("r1", members, TRUE)>> \o windows :
     members \in {<<Id("T", 1), Id("T", 2)>>, <<Id("T", 2), Id("T", 1)>>, <<Id("T", 1), Id("T", 1)>>},
     windows \in {<<>>,
                  <<phaseWindowRule("r2", Id("T", 1), <<Num(1)>>, TRUE)>>,
                  <<phaseWindowRule("r2", Id("T", 1), <<Num(2)>>, TRUE)>>,
                  <<phaseWindowRule("r2", Id("T", 3), <<Num(1)>>, TRUE)>>,
                  <<phaseWindowRule("r2", Id("T", 1), <<Num(1)>>, FALSE)>>}}

ConflictInputs == {<<Data({<<"tasks", ts>>}), rs>> : ts \in ConflictTasks, rs \in ConflictRules}

NextConflict == \E in \in ConflictInputs : Call(in[1], in[2])

SpecConflict == Init /\ [][NextConflict]_vars

\* --- coRun rules over up to MaxGroup tasks
MaxGroup == 3

GroupIds == {Id("T", n) : n \in 1..MaxGroup}

\* the lists of distinct task ids
Groups == UNION {{g \in [1..k -> GroupIds] : \A i, j \in 1..k : i # j => g[i] # g[j]} : k \in 1..MaxGroup}

OtherGroups == {<<Id("T", 1), Id("T", 2)>>, <<Id("T", 2), Id("T", 9)>>}

CoRunInputs ==
  {<<NoData, <<coRunRule("r1", g, TRUE)>>>> : g \in Groups}
    \cup {<<NoData, <<coRunRule("r1", g, TRUE), coRunRule("r2", o, TRUE)>>>> : g \in Groups, o \in OtherGroups}
    \cup {<<NoData, <<coRunRule("r1", o, TRUE), coRunRule("r2", g, TRUE)>>>> : g \in Groups, o \in OtherGroups}

NextCoRun == \E in \in CoRunInputs : Call(in[1], in[2])

SpecCoRun == Init /\ [][NextCoRun]_vars

\* --- collections absent, empty or of one record
EmptyOrOne(good, bad) == {<<>>, <<<<>>>>, <<<<good>>>>, <<<<bad>>>>}

\* the data argument whose collections are the given optional lists
optionalData(cs, ws, ts) ==
  Data({<<"clients", cs[i]>> : i \in DOMAIN cs}
         \cup {<<"workers", ws[i]>> : i \in DOMAIN ws}
         \cup {<<"tasks", ts[i]>> : i \in DOMAIN ts})

\* rules omitted is rules = [] (line 9)
EmptyInputs ==
  {<<optionalData(cs, ws, ts), rs>> :
     cs \in EmptyOrOne(cGood, cBad), ws \in EmptyOrOne(wGood, wOver), ts \in EmptyOrOne(tGood, tBad),
     rs \in {<<>>, BaseRules}}

NextEmpty == \E in \in EmptyInputs : Call(in[1], in[2])

SpecEmpty == Init /\ [][NextEmpty]_vars

\* --- requested task ids against the tasks supplied
requestClient(n, requested) ==
  Entity({<<"ClientID", Id("C", n)>>, <<"ClientName", Str(<<"a">>)>>, <<"PriorityLevel", Num(3)>>}
           \cup {<<"RequestedTaskIDs", Str(requested[i])>> : i \in DOMAIN requested})

\* no RequestedTaskIDs, or a list with resolved, unresolved, padded and empty tokens
Requests ==
  {<<>>, <<<<>>>>, <<<<"T", "1">>>>, <<<<" ", "T", "1", ",", "T", "9">>>>, <<<<"T", "8", ",", ",", " ", "T", "2", " ">>>>,
   <<<<"T", "9", ",", "T", "9">>>>, <<<<",", " ">>>>}

ReferenceClients ==
  {<<requestClient(1, r)>> : r \in Requests}
    \cup {<<requestClient(1, <<<<"T", "1", ",", "T", "9">>>>), requestClient(2, r)>> : r \in Requests}

ReferenceTasks == {<<>>, <<<<>>>>, <<<<durationTask(1, Num(1))>>>>, <<<<durationTask(1, Num(1)), durationTask(2, Num(1))>>>>}

ReferenceInputs == {<<optionalData(<<cs>>, <<>>, ts), <<>>>> : cs \in ReferenceClients, ts \in ReferenceTasks}

NextReferences == \E in \in ReferenceInputs : Call(in[1], in[2])

SpecReferences == Init /\ [][NextReferences]_vars

\* --- available slots against the load per phase
MaxLoad == 3

slotsWorker(n, slots, maxLoad) ==
  Entity({<<"WorkerID", Id("W", n)>>, <<"WorkerName", Str(<<"a">>)>>, <<"Skills", Str(<<"a">>)>>}
           \cup {<<"AvailableSlots", Str(slots[i])>> : i \in DOMAIN slots}
           \cup {<<"MaxLoadPerPhase", Num(maxLoad[i])>> : i \in DOMAIN maxLoad})

\* no AvailableSlots, the empty string, arrays, a truncated array, an object, a number
SlotStrings ==
  {<<>>, <<<<>>>>, <<<<"[", "]">>>>, <<<<"[", "1", "]">>>>, <<<<"[", "1", ",", "2", "]">>>>,
   <<<<"[", "1">>>>, <<<<"{", "}">>>>, <<<<"3">>>>}

Loads == {<<>>} \cup {<<load>> : load \in 0..MaxLoad}

OverloadWorkers ==
  {<<slotsWorker(1, slots, load)>> : slots \in SlotStrings, load \in Loads}
    \cup {<<slotsWorker(1, <<<<"[", "1", "]">>>>, <<2>>), slotsWorker(2, slots, <<1>>)>> : slots \in SlotStrings}
    \cup {<<slotsWorker(1, <<<<"[", "1", "]">>>>, <<1>>), slotsWorker(2, slots, <<2>>)>> : slots \in SlotStrings}

OverloadInputs == {<<Data({<<"workers", ws>>}), <<>>>> : ws \in OverloadWorkers}

NextOverload == \E in \in OverloadInputs : Call(in[1], in[2])

SpecOverload == Init /\ [][NextOverload]_vars

\* --- active rules with an inactive rule before or after them
ActiveLists ==
  {<<>>, <<rCo>>, <<rWindow>>, <<rCo, rWindow>>, <<rWindow, rCo>>,
   <<coRunRule("r4", <<Id("T", 1), Id("T", 2), Id("T", 3)>>, TRUE), phaseWindowRule("r5", Id("T", 2), <<Num(1)>>, TRUE)>>}

InactiveRules ==
  {rOff, coRunRule("r6", <<Id("T", 2), Id("T", 1)>>, FALSE),
   phaseWindowRule("r7", Id("T", 1), <<Num(2)>>, FALSE), phaseWindowRule("r8", Id("T", 2), <<Num(4)>>, FALSE)}

InactiveInputs ==
  {<<d, rs>> : d \in {NoData, Data({<<"tasks", <<tGood, tBad>>>>})},
               rs \in ActiveLists \cup {<<off>> \o as : off \in InactiveRules, as \in ActiveLists}
                                  \cup {as \o <<off>> : off \in InactiveRules, as \in ActiveLists}}

NextInactive == \E in \in InactiveInputs : Call(in[1], in[2])

SpecInactive == Init /\ [][NextInactive]_vars

\* --- demand of one or two tasks against the capacity of some workers
optionalTask(n, duration, phases) ==
  Entity({<<"TaskID", Id("T", n)>>, <<"TaskName", Str(<<"a">>)>>, <<"RequiredSkills", Str(<<>>)>>}
           \cup {<<"Duration", Num(duration[i])>> : i \in DOMAIN duration}
           \cup {<<"PreferredPhases", Str(phases[i])>> : i \in DOMAIN phases})

\* no PreferredPhases, arrays (one phase, a phase twice, none), ranges
\* (ascending, reversed), a truncated array, plain text
PhaseStrings ==
  {<<>>, <<<<"[", "2", "]">>>>, <<<<"[", "1", ",", "1", "]">>>>, <<<<"[", "]">>>>, <<<<"1", "-", "2">>>>,
   <<<<"2", "-", "1">>>>, <<<<"[", "1">>>>, <<<<"x">>>>}

LoadTasks ==
  {<<optionalTask(1, duration, phases)>> : duration \in {<<>>, <<0>>, <<2>>}, phases \in PhaseStrings}
    \cup {<<optionalTask(1, <<2>>, <<<<"1", "-", "2">>>>), optionalTask(2, <<2>>, phases)>> : phases \in PhaseStrings}

\* no worker; two workers, one listing a phase twice; two workers that add no
\* capacity, one for its slots, one for its load
LoadWorkers ==
  {<<>>,
   <<slotsWorker(1, <<<<"[", "1", ",", "1", "]">>>>, <<1>>), slotsWorker(2, <<<<"[", "2", "]">>>>, <<2>>)>>,
   <<slotsWorker(1, <<<<"[", "1">>>>, <<3>>), slotsWorker(2, <<<<"[", "1", ",", "2", "]">>>>, <<>>)>>}

LoadInputs == {<<Data({<<"workers", ws>>, <<"tasks", ts>>}), <<>>>> : ws \in LoadWorkers, ts \in LoadTasks}

NextLoad == \E in \in LoadInputs : Call(in[1], in[2])

SpecLoad == Init /\ [][NextLoad]_vars

\* --- two tasks of a coRun rule, with PreferredPhases of every form
\* arrays (valid, truncated, with a trailing comma), ranges (ascending,
\* reversed, of non-numbers), plain text
PhaseForms ==
  {<<"[", "1", ",", "2", "]">>, <<"[", "1">>, <<"[", "1", ",", "]">>, <<"1", "-", "2">>, <<"2", "-", "1">>,
   <<"a", "-", "b">>, <<"x">>, <<"3">>}

PhaseFormInputs ==
  {<<Data({<<"workers", <<>>>>, <<"tasks", <<phasesTask(1, <<p1>>), phasesTask(2, <<p2>>)>>>>}),
     <<rCo, phaseWindowRule("r2", Id("T", 3), <<Num(1)>>, TRUE)>>>> :
     p1 \in PhaseForms, p2 \in PhaseForms}

NextPhaseForms == \E in \in PhaseFormInputs : Call(in[1], in[2])

SpecPhaseForms == Init /\ [][NextPhaseForms]_vars

\* --- required skills against the workers' skills
skillsWorker(n, skills) ==
  Entity({<<"WorkerID", Id("W", n)>>, <<"WorkerName", Str(<<"a">>)>>,
          <<"AvailableSlots", Str(<<"[", "1", "]">>)>>, <<"MaxLoadPerPhase", Num(1)>>}
           \cup {<<"Skills", Str(skills[i])>> : i \in DOMAIN skills})

skillsTask(n, required, maxConcurrent) ==
  Entity({<<"TaskID", Id("T", n)>>, <<"TaskName", Str(<<"a">>)>>, <<"Duration", Num(1)>>}
           \cup {<<"RequiredSkills", Str(required[i])>> : i \in DOMAIN required}
           \cup {<<"MaxConcurrent", Num(maxConcurrent[i])>> : i \in DOMAIN maxConcurrent})

SkillWorkers ==
  {<<>>,
   <<skillsWorker(1, <<<<"a">>>>)>>,
   <<skillsWorker(1, <<<<" ", "A", " ", ",", "B">>>>)>>,
   <<skillsWorker(1, <<<<"a">>>>), skillsWorker(2, <<<<"b">>>>)>>,
   <<skillsWorker(1, <<<<"a", ",", "b">>>>), skillsWorker(2, <<<<"B">>>>)>>,
   <<skillsWorker(1, <<>>), skillsWorker(2, <<<<"a">>>>)>>}

\* no RequiredSkills, none required, one skill, two skills in mixed case, an
\* empty token among two skills
RequiredStrings ==
  {<<>>, <<<<>>>>, <<<<"a">>>>, <<<<"A", ",", " ", "b">>>>, <<<<"c">>>>, <<<<"A", ",", ",", "d">>>>}

SkillTasks ==
  {<<skillsTask(1, required, maxConcurrent)>> : required \in RequiredStrings, maxConcurrent \in {<<>>, <<1>>, <<2>>}}
    \cup {<<skillsTask(1, <<<<"c", ",", "a">>>>, <<2>>), skillsTask(2, required, <<1>>)>> : required \in RequiredStrings}

SkillInputs == {<<Data({<<"workers", ws>>, <<"tasks", ts>>}), <<>>>> : ws \in SkillWorkers, ts \in SkillTasks}

NextSkills == \E in \in SkillInputs : Call(in[1], in[2])

SpecSkills == Init /\ [][NextSkills]_vars

\* --- records that share, lack or repeat an id
MaxCopies == 3

\* a record of the collection with the given id, or with none
idRecord(entityType, id) == Entity({<<idField(entityType), id[i]>> : i \in DOMAIN id})

\* no id, the empty id, two ids
IdValues(letter) == {<<>>, <<Str(<<>>)>>, <<Id(letter, 1)>>, <<Id(letter, 2)>>}

idRecords(entityType, ids) == [i \in DOMAIN ids |-> idRecord(entityType, ids[i])]

IdInputs ==
  {<<Data({<<"clients", idRecords("clients", ids)>>}), <<>>>> : ids \in SeqsUpTo(IdValues("C"), MaxCopies)}
    \cup {<<Data({<<"workers", idRecords("workers", ids)>>,
                  <<"tasks", idRecords("tasks", <<<<Id("W", 1)>>, <<Id("W", 2)>>, <<Id("W", 2)>>>>)>>}), <<>>>> :
            ids \in SeqsUpTo({<<Id("W", 1)>>, <<Id("W", 2)>>}, 2)}

NextIds == \E in \in IdInputs : Call(in[1], in[2])

SpecIds == Init /\ [][NextIds]_vars

\* --- workers whose slots do not parse, among workers whose slots do
\* <<AvailableSlots, MaxLoadPerPhase>>: two that parse, two that do not
SlotKinds ==
  {<<<<"[", "1", ",", "2", "]">>, 1>>, <<<<"[", "1", "]">>, 3>>, <<<<"[", "1">>, 2>>, <<<<"x">>, 5>>}

kindWorkers(kinds) == [i \in DOMAIN kinds |-> slotsWorker(i, <<kinds[i][1]>>, <<kinds[i][2]>>)]

UnparseableInputs ==
  {<<Data({<<"workers", kindWorkers(kinds)>>, <<"tasks", <<optionalTask(1, <<2>>, phases)>>>>}), <<>>>> :
     kinds \in SeqsUpTo(SlotKinds, MaxRecords),
     phases \in {<<>>, <<<<"1", "-", "2">>>>, <<<<"[", "2", "]">>>>}}

NextUnparseable == \E in \in UnparseableInputs : Call(in[1], in[2])

SpecUnparseable == Init /\ [][NextUnparseable]_vars

\* --- AvailableSlots of every kind of failure
\* a valid array, a truncated array, an object, a number, arrays with a zero,
\* a string, a negative number
SlotForms ==
  {<<"[", "1", ",", "2", "]">>, <<"[", "1">>, <<"{", "}">>, <<"3">>, <<"[", "0", "]">>,
   <<"[", "\"", "a", "\"", "]">>, <<"[", "1", ",", "-", "1", "]">>}

formWorkers(forms) == [i \in DOMAIN forms |-> slotsWorker(i, <<forms[i]>>, <<1>>)]

SlotInputs == {<<Data({<<"workers", formWorkers(forms)>>}), <<>>>> : forms \in SeqsUpTo(SlotForms, MaxRecords)}

NextSlots == \E in \in SlotInputs : Call(in[1], in[2])

SpecSlots == Init /\ [][NextSlots]_vars

\* --- records with and without their mandatory fields
\* the record without the field
without(e, field) == [k \in DOMAIN e \ {field} |-> e[k]]

ColumnRecords(entityType) ==
  CASE entityType = "clients" ->
         {cGood, without(cGood, "ClientName"), without(cGood, "PriorityLevel"),
          without(without(cGood, "ClientName"), "RequestedTaskIDs")}
    [] entityType = "workers" ->
         {wGood, without(wGood, "WorkerName"), without(wGood, "MaxLoadPerPhase"),
          without(without(wGood, "WorkerName"), "Skills")}
    [] entityType = "tasks" ->
         {tGood, without(tGood, "TaskName"), without(tGood, "Duration"),
          without(without(tGood, "TaskName"), "RequiredSkills")}

ColumnInputs ==
  UNION {{<<Data({<<entityType, records>>}), <<>>>> : records \in SeqsUpTo(ColumnRecords(entityType), MaxRecords)} :
           entityType \in {"clients", "workers", "tasks"}}

NextColumns == \E in \in ColumnInputs : Call(in[1], in[2])

SpecColumns == Init /\ [][NextColumns]_vars

\* --- the co-run traversal, one step of hasCycle at a time
\* a frame of hasCycle: its node, its path, and the neighbour it visits next
Frame(node, path, i) == [node |-> node, path |-> path, i |-> i]

topFrame(d) == d.frames[Len(d.frames)]

\* the call hasCycle(node, path) up to its first recursive call (lines 436-453)
callHasCycle(d, node, path) ==
  IF node \in d.stack
  THEN [d EXCEPT !.found = Append(@, circularFinding(cycleOf(path, node))), !.unwinding = d.frames # <<>>]
  ELSE IF node \in d.visited THEN d
  ELSE [d EXCEPT !.visited = @ \cup {node}, !.stack = @ \cup {node},
                 !.entered = Append(@, node), !.frames = Append(@, Frame(node, path, 1))]

\* `return true` of the frame whose callee returned true (lines 457-459)
returnTrue(d) ==
  [d EXCEPT !.frames = SubSeq(@, 1, Len(@) - 1), !.unwinding = Len(d.frames) > 1]

\* a frame that never returns
stayInFrame(d) == d

\* recursionStack.delete(node); return false (lines 462-463)
returnFalse(d) ==
  [d EXCEPT !.stack = @ \ {topFrame(d).node}, !.frames = SubSeq(@, 1, Len(@) - 1)]

\* the next neighbour of the top frame (lines 456-457)
visitNext(d) ==
  callHasCycle([d EXCEPT !.frames[Len(d.frames)].i = @ + 1],
               neighborsOf(d.graph, topFrame(d).node)[topFrame(d).i],
               Append(topFrame(d).path, topFrame(d).node))

\* the next key of Object.keys(graph).forEach (lines 466-470)
nextRoot(d) ==
  IF d.root > Len(d.keys) THEN [d EXCEPT !.phase = "done"]
  ELSE IF Str(d.keys[d.root]) \in d.visited THEN [d EXCEPT !.root = @ + 1]
  ELSE callHasCycle([d EXCEPT !.root = @ + 1], Str(d.keys[d.root]), <<>>)

\* one step of the traversal
stepOf(d) ==
  IF d.frames = <<>> THEN nextRoot(d)
  ELSE IF d.unwinding THEN returnTrue(d)
  ELSE IF topFrame(d).i > Len(neighborsOf(d.graph, topFrame(d).node)) THEN returnFalse(d)
  ELSE visitNext(d)

\* validateCircularCoRunGroups(rules) is entered
StartTraversal(rs) ==
  /\ dfs.phase = "idle"
  /\ dfs' = [dfs EXCEPT !.phase = "built", !.rules = rs]
  /\ UNCHANGED <<validationResults, inData, inRules, data, rules, outcome, repeat, held, dash>>

\* the graph is built, or the check returns for want of an active coRun rule
\* (lines 413-433)
BuildGraph ==
  /\ dfs.phase = "built"
  /\ dfs' = IF activeRules(dfs.rules, "coRun") = <<>> THEN [dfs EXCEPT !.phase = "done"]
            ELSE [dfs EXCEPT !.phase = "running", !.graph = coRunGraph(dfs.rules),
                             !.keys = objectKeys(coRunGraph(dfs.rules))]
  /\ UNCHANGED <<validationResults, inData, inRules, data, rules, outcome, repeat, held, dash>>

TraversalStep ==
  /\ dfs.phase = "running"
  /\ dfs' = stepOf(dfs)
  /\ UNCHANGED <<validationResults, inData, inRules, data, rules, outcome, repeat, held, dash>>

\* rule sets whose coRun rules overlap, repeat a task id, or are inactive
TraversalRules ==
  {in[2] : in \in CoRunInputs}
    \cup {<<coRunRule("r1", <<Id("T", 1), Id("T", 1), Id("T", 2)>>, TRUE)>>,
          <<coRunRule("r1", <<Id("T", 1), Id("T", 2)>>, TRUE), coRunRule("r2", <<Id("T", 2), Id("T", 1), Id("T", 2)>>, TRUE)>>,
          <<rOff>>, <<>>}

NextTraversal ==
  \/ \E rs \in TraversalRules : StartTraversal(rs)
  \/ BuildGraph
  \/ TraversalStep

\* the traversal runs on once begun: nothing suspends a call
SpecTraversal == Init /\ [][NextTraversal]_vars /\ WF_dfs(TraversalStep)

\* two calls on one engine, the caller keeping the list of the first
HeldInputs ==
  {<<[BaseData EXCEPT !["clients"] = clients], <<rCo>>>> : clients \in SeqsUpTo({cGood, cBad, cJson}, MaxRecords)}

NextHeld == \E in \in HeldInputs : CallHolding(in[1], in[2])

SpecHeld == Init /\ [][NextHeld]_vars

\* --- one coRun rule over two tasks, with several phaseWindow rules on one task
\* a phaseWindow rule that has no allowedPhases
openWindowRule(id, taskId, isActive) ==
  [id |-> id, type |-> "phaseWindow", isActive |-> isActive, parameters |-> Entity({<<"taskId", taskId>>})]

Windows ==
  {phaseWindowRule("r2", Id("T", 1), <<Num(1)>>, TRUE),
   phaseWindowRule("r3", Id("T", 1), <<Num(2)>>, TRUE),
   phaseWindowRule("r4", Id("T", 1), <<Num(2)>>, FALSE),
   phaseWindowRule("r5", Id("T", 2), <<Num(2), Num(1)>>, TRUE),
   openWindowRule("r6", Id("T", 1), TRUE)}

WindowTasks == <<phasesTask(1, <<<<"[", "3", "]">>>>), phasesTask(2, <<<<"1", "-", "2">>>>)>>

WindowInputs ==
  {<<Data({<<"tasks", WindowTasks>>}), <<coRunRule("r1", members, TRUE)>> \o windows>> :
     members \in {<<Id("T", 1), Id("T", 2)>>, <<Id("T", 2), Id("T", 1)>>},
     windows \in SeqsUpTo(Windows, MaxRecords) \ {<<>>}}

NextWindows == \E in \in WindowInputs : Call(in[1], in[2])

SpecWindows == Init /\ [][NextWindows]_vars

\* --- the dashboard (app/page.tsx): uploads, data changes and rule changes
engineVars == <<validationResults, inData, inRules, data, rules, outcome, repeat, dfs, held>>

\* { clients: dataState.clients, workers: dataState.workers, tasks: dataState.tasks }
storedData(ds) == Data({<<"clients", ds.clients>>, <<"workers", ds.workers>>, <<"tasks", ds.tasks>>})

\* the dashboard after the operation op on the entity id of a grid, which leaves
\* the state as ds and the grid as g
Operated(op, entityType, id, ds, g) ==
  /\ dash' = [dataState |-> ds, grid |-> g,
              last |-> [op |-> op, entityType |-> entityType, id |-> id, before |-> dash.dataState]]
  /\ UNCHANGED engineVars

\* lines 60-72, given the run of validateData(data, dataState.businessRules):
\* a throw leaves the handler after the first setDataState
afterParsed(ds, parsed, run) ==
  IF run.ex THEN [ds EXCEPT !.isValidating = TRUE, !.businessRules = run.rules]
  ELSE [ds EXCEPT !.clients = IF has(parsed, "clients") THEN parsed["clients"] ELSE @,
                  !.workers = IF has(parsed, "workers") THEN parsed["workers"] ELSE @,
                  !.tasks = IF has(parsed, "tasks") THEN parsed["tasks"] ELSE @,
                  !.validationResults = run.res,
                  !.businessRules = run.rules,
                  !.isValidating = FALSE]

\* handleDataParsed(data), data being parsed: a file upload; the engine is the
\* one of the render (line 57), and the overview tab is shown at the end (line 75)
handleDataParsed(parsed) ==
  Operated("handleDataParsed", "", Undef,
           afterParsed(dash.dataState, parsed, validateData(Engine(<<>>, 0), parsed, dash.dataState.businessRules)),
           IF validateData(Engine(<<>>, 0), parsed, dash.dataState.businessRules).ex THEN dash.grid ELSE NoEdit)

\* lines 81-93, given the run of validateData(updatedData, dataState.businessRules)
afterChange(ds, entityType, newData, run) ==
  IF run.ex THEN [ds EXCEPT !.businessRules = run.rules]
  ELSE [ds EXCEPT ![entityType] = newData, !.validationResults = run.res, !.businessRules = run.rules]

\* the state that handleDataChange(entityType, newData) sets
dataChanged(ds, entityType, newData) ==
  afterChange(ds, entityType, newData,
              validateData(Engine(<<>>, 0), [storedData(ds) EXCEPT ![entityType] = newData], ds.businessRules))

\* handleDataChange(entityType, newData), called by the tools of the side bar
handleDataChange(entityType, newData) ==
  Operated("handleDataChange", entityType, Undef, dataChanged(dash.dataState, entityType, newData), dash.grid)

\* lines 121-131, given the run of validateData({clients, workers, tasks}, rules)
afterRules(ds, run) ==
  IF run.ex THEN ds ELSE [ds EXCEPT !.businessRules = run.rules, !.validationResults = run.res]

\* handleRulesChange(rules)
handleRulesChange(rs) ==
  Operated("handleRulesChange", "", Undef,
           afterRules(dash.dataState, validateData(Engine(<<>>, 0), storedData(dash.dataState), rs)),
           dash.grid)

\* the files uploaded: each carries some of the three collections
Uploads ==
  {optionalData(cs, ws, ts) :
     cs \in {<<>>, <<<<cBad>>>>},
     ws \in {<<>>, <<<<wOver>>>>, <<<<wGood>>>>},
     ts \in {<<>>, <<<<tBad, tGood>>>>, <<<<tGood>>>>}}

Changes == {<<"clients", <<>>>>, <<"clients", <<cGood>>>>, <<"workers", <<wBad>>>>, <<"tasks", <<tBig>>>>}

RuleLists == {<<>>, <<rCo>>, BaseRules}

NextDashboard ==
  \/ \E upload \in Uploads : handleDataParsed(upload)
  \/ \E change \in Changes : handleDataChange(change[1], change[2])
  \/ \E rs \in RuleLists : handleRulesChange(rs)

SpecDashboard == Init /\ [][NextDashboard]_vars

\* --- the data grids of the dashboard (DataGrid.tsx); the tabs show one at a time
Grids == {"clients", "workers", "tasks"}

\* columns[0].key (lines 42-76): the id column of a grid
idColumn(entityType) ==
  CASE entityType = "clients" -> "ClientID"
    [] entityType = "workers" -> "WorkerID"
    [] entityType = "tasks" -> "TaskID"

\* columns[1].key: the name column of a grid
nameField(entityType) ==
  CASE entityType = "clients" -> "ClientName"
    [] entityType = "workers" -> "WorkerName"
    [] entityType = "tasks" -> "TaskName"
    [] OTHER -> ""

\* entityType.slice(0, 1).toUpperCase()
prefixOf(entityType) ==
  CASE entityType = "clients" -> "C"
    [] entityType = "workers" -> "W"
    [] entityType = "tasks" -> "T"

\* dataState.searchResults.some(result => result.entityType === entityType &&
\* result.entityId === record[id field]) (lines 174-176, 180-182, 186-188)
inSearchResults(ds, entityType, record) ==
  \E i \in DOMAIN ds.searchResults :
    /\ ds.searchResults[i].entityType = entityType
    /\ ds.searchResults[i].entityId = Get(record, idColumn(entityType))

\* getFilteredData() (lines 168-197)
getFilteredData(ds) ==
  IF ~ds.filteredView \/ Len(ds.searchResults) = 0 THEN ds
  ELSE [ds EXCEPT !.clients = SelectSeq(@, LAMBDA client : inSearchResults(ds, "clients", client)),
                  !.workers = SelectSeq(@, LAMBDA worker : inSearchResults(ds, "workers", worker)),
                  !.tasks = SelectSeq(@, LAMBDA task : inSearchResults(ds, "tasks", task))]

\* the data prop of the grid of the tab: displayData[entityType] (lines 451-476)
dataOf(d) == getFilteredData(d.dataState)[d.grid.tab]

\* is the row one of the rows that the grid of the tab shows ?
shown(d, rowIndex) == d.grid.tab \in Grids /\ rowIndex \in DOMAIN dataOf(d)

\* handleSearchResults(results) (lines 134-140); the search box is there when
\* some collection has records (line 257)
handleSearchResults(results) ==
  /\ Len(dash.dataState.clients) > 0 \/ Len(dash.dataState.workers) > 0 \/ Len(dash.dataState.tasks) > 0
  /\ Operated("handleSearchResults", "", Undef,
              [dash.dataState EXCEPT !.searchResults = results, !.filteredView = Len(results) > 0], dash.grid)

\* clearSearchFilter() (lines 149-155): the button is shown with the results
clearSearchFilter ==
  /\ dash.dataState.filteredView
  /\ Operated("clearSearchFilter", "", Undef,
              [dash.dataState EXCEPT !.searchResults = <<>>, !.filteredView = FALSE], dash.grid)

\* setCurrentTab(tab): the grid of the tab is mounted, editing no row
setCurrentTab(tab) ==
  /\ tab # dash.grid.tab
  /\ Operated("setCurrentTab", "", Undef, dash.dataState, [NoEdit EXCEPT !.tab = tab])

\* startEditing(rowIndex) (lines 110-113), of a row that shows the edit button
startEditing(rowIndex) ==
  /\ shown(dash, rowIndex)
  /\ rowIndex # dash.grid.editingRow
  /\ Operated("startEditing", dash.grid.tab, Get(dataOf(dash)[rowIndex], idColumn(dash.grid.tab)), dash.dataState,
              [dash.grid EXCEPT !.editingRow = rowIndex, !.editingData = dataOf(dash)[rowIndex]])

\* cancelEditing() (lines 115-118), of the row that shows the cancel button
cancelEditing ==
  /\ shown(dash, dash.grid.editingRow)
  /\ Operated("cancelEditing", dash.grid.tab, Undef, dash.dataState, [NoEdit EXCEPT !.tab = dash.grid.tab])

\* handleInputChange(field, value) (lines 162-167), in the row that shows the inputs
handleInputChange(field, value) ==
  /\ shown(dash, dash.grid.editingRow)
  /\ Get(dash.grid.editingData, field) # value
  /\ Operated("handleInputChange", dash.grid.tab, Undef, dash.dataState,
              [dash.grid EXCEPT !.editingData =
                 [f \in DOMAIN @ \cup {field} |-> IF f = field THEN value ELSE @[f]]])

\* did the validateData call of handleDataChange(entityType, newData) throw ?
changeThrew(ds, entityType, newData) ==
  validateData(Engine(<<>>, 0), [storedData(ds) EXCEPT ![entityType] = newData], ds.businessRules).ex

\* saveEdit() (lines 120-128), of the row that shows the save button: the
\* edited copy of the grid's data goes to handleDataChange (lines 456, 465, 474)
saveEdit ==
  /\ shown(dash, dash.grid.editingRow)
  /\ Operated("saveEdit", dash.grid.tab, Get(dash.grid.editingData, idColumn(dash.grid.tab)),
              dataChanged(dash.dataState, dash.grid.tab,
                          [dataOf(dash) EXCEPT ![dash.grid.editingRow] = dash.grid.editingData]),
              IF changeThrew(dash.dataState, dash.grid.tab,
                             [dataOf(dash) EXCEPT ![dash.grid.editingRow] = dash.grid.editingData])
              THEN dash.grid ELSE [NoEdit EXCEPT !.tab = dash.grid.tab])

\* data.filter((_, index) => index !== rowIndex)
withoutRow(rows, rowIndex) == [i \in 1..(Len(rows) - 1) |-> IF i < rowIndex THEN rows[i] ELSE rows[i + 1]]

\* deleteRow(rowIndex) (lines 130-133), of a row that shows the delete button
deleteRow(rowIndex) ==
  /\ shown(dash, rowIndex)
  /\ rowIndex # dash.grid.editingRow
  /\ Operated("deleteRow", dash.grid.tab, Get(dataOf(dash)[rowIndex], idColumn(dash.grid.tab)),
              dataChanged(dash.dataState, dash.grid.tab, withoutRow(dataOf(dash), rowIndex)),
              dash.grid)

\* lines 136-145: the row of a grid with the defaults of its columns
newRow(entityType) ==
  CASE entityType = "clients" ->
         Entity({<<"ClientID", Str(<<>>)>>, <<"ClientName", Str(<<>>)>>, <<"PriorityLevel", Num(1)>>,
                 <<"RequestedTaskIDs", Str(<<>>)>>, <<"GroupTag", Str(<<>>)>>,
                 <<"AttributesJSON", Str(<<"{", "}">>)>>})
    [] entityType = "workers" ->
         Entity({<<"WorkerID", Str(<<>>)>>, <<"WorkerName", Str(<<>>)>>, <<"Skills", Str(<<>>)>>,
                 <<"AvailableSlots", Str(<<"[", "1", ",", "2", ",", "3", "]">>)>>,
                 <<"MaxLoadPerPhase", Num(1)>>, <<"WorkerGroup", Str(<<>>)>>, <<"QualificationLevel", Num(1)>>})
    [] entityType = "tasks" ->
         Entity({<<"TaskID", Str(<<>>)>>, <<"TaskName", Str(<<>>)>>, <<"Category", Str(<<>>)>>,
                 <<"Duration", Num(1)>>, <<"RequiredSkills", Str(<<>>)>>, <<"PreferredPhases", Str(<<>>)>>,
                 <<"MaxConcurrent", Num(1)>>})

\* lines 147-154: the first of prefix1, prefix2, ... that no row of the grid's data has as id
RECURSIVE newId(_, _, _)
newId(rows, entityType, n) ==
  IF \E i \in DOMAIN rows : Get(rows[i], idColumn(entityType)) = Id(prefixOf(entityType), n)
  THEN newId(rows, entityType, n + 1)
  ELSE Id(prefixOf(entityType), n)

\* the row that addNewRow appends to the rows
addedRow(rows, entityType) ==
  [newRow(entityType) EXCEPT ![idColumn(entityType)] = newId(rows, entityType, 1)]

\* the most rows that the add button is used for
MaxRows == 2

\* addNewRow() (lines 135-161)
addNewRow ==
  /\ dash.grid.tab \in Grids
  /\ Len(dataOf(dash)) < MaxRows
  /\ Operated("addNewRow", dash.grid.tab, newId(dataOf(dash), dash.grid.tab, 1),
              dataChanged(dash.dataState, dash.grid.tab,
                          Append(dataOf(dash), addedRow(dataOf(dash), dash.grid.tab))),
              IF changeThrew(dash.dataState, dash.grid.tab,
                             Append(dataOf(dash), addedRow(dataOf(dash), dash.grid.tab)))
              THEN dash.grid
              ELSE [dash.grid EXCEPT !.editingRow = Len(dataOf(dash)) + 1,
                                     !.editingData = addedRow(dataOf(dash), dash.grid.tab)])

\* the results of a search: the records that the search box gives to the dashboard
SearchResult(entityType, entityId) == [entityType |-> entityType, entityId |-> entityId]

SearchResults ==
  {<<SearchResult("clients", Id("C", 1))>>,
   <<SearchResult("clients", Id("C", 2)), SearchResult("workers", Id("W", 1))>>}

ShownTabs == {"data", "clients", "workers"}

NextGrid ==
  \/ \E results \in SearchResults : handleSearchResults(results)
  \/ clearSearchFilter
  \/ \E tab \in ShownTabs : setCurrentTab(tab)
  \/ \E rowIndex \in 1..MaxRows : startEditing(rowIndex)
  \/ cancelEditing
  \/ handleInputChange(nameField(dash.grid.tab), Str(<<"z">>))
  \/ saveEdit
  \/ \E rowIndex \in 1..MaxRows : deleteRow(rowIndex)
  \/ addNewRow

SpecGrid == Init /\ [][NextGrid]_vars

(***************************************************************************)
(* Properties of the calls.                                                *)
(***************************************************************************)
Returned == outcome.status = "returned"

\* the findings of the given type in the returned list
findingsOfType(type) == {i \in DOMAIN outcome.list : outcome.list[i].type = type}

\* C2: on a shared engine, each call returns what a fresh engine returns for
\* the same entities and rules; findings of earlier calls never accumulate.
C2_EqualsFreshInstance ==
  outcome.status # "none" => outcome = outcomeOf(validateData(Engine(<<>>, 0), inData, inRules))

\* a call that returned findings after an earlier call had already returned some
C2_Witness ==
  /\ Returned /\ Len(outcome.list) > 0
  /\ repeat.status = "returned" /\ Len(repeat.list) > 0

perEntityTypes ==
  {"missing_columns", "duplicate_id", "invalid_priority", "invalid_json", "non_json_attributes",
   "invalid_slots_format", "invalid_slot_values", "unparseable_slots", "invalid_duration"}

crossEntityTypes ==
  {"missing_task_references", "missing_skill_coverage", "max_concurrency_infeasible",
   "phase_slot_saturation"}

ruleTypes == {"circular_corun_group", "conflicting_rules"}

\* the place of a collection among the per-entity checks
collectionStage(entityType) ==
  CASE entityType = "clients" -> 1
    [] entityType = "workers" -> 2
    [] OTHER -> 3

\* the check group of a finding, overloaded_worker being given the group overloaded
stageOf(finding, overloaded) ==
  CASE finding.type \in perEntityTypes -> collectionStage(finding.entityType)
    [] finding.type = "overloaded_worker" -> overloaded
    [] finding.type \in crossEntityTypes -> 4
    [] OTHER -> 5

inStageOrder(list, overloaded) ==
  \A i, j \in DOMAIN list : i < j => stageOf(list[i], overloaded) <= stageOf(list[j], overloaded)

\* C3 as stated: per-entity findings (clients, workers, tasks) precede the
\* cross-entity findings, overloaded_worker counted among the cross-entity
\* ones, and these precede the rule-consistency findings.
C3_OverloadedAmongCrossEntity == Returned => inStageOrder(outcome.list, 4)

\* C3: findings are ordered by check group, overloaded_worker belonging to the
\* workers' per-entity group: clients, then workers, then tasks, then the
\* cross-entity findings, then the rule-consistency findings.
C3_OrderedByCheckGroup == Returned => inStageOrder(outcome.list, 2)

\* a list with an overloaded_worker finding, a later per-entity finding of a
\* task, a later cross-entity finding and a later rule-consistency finding
C3_Witness ==
  /\ Returned
  /\ \E i, j, k, l \in DOMAIN outcome.list :
       /\ i < j /\ j < k /\ k < l
       /\ outcome.list[i].type = "overloaded_worker"
       /\ outcome.list[j].type \in perEntityTypes /\ outcome.list[j].entityType = "tasks"
       /\ outcome.list[k].type \in crossEntityTypes
       /\ outcome.list[l].type \in ruleTypes

\* C9: two calls with the same entities and rules return the same list: same
\* length, same findings, same order.
C9_Deterministic == repeat.status # "none" => repeat = outcome

\* the same input validated twice in a row, with several findings returned
C9_Witness ==
  /\ repeat.status = "returned" /\ Returned
  /\ Len(repeat.list) > 1 /\ Len(outcome.list) > 1

\* C10: the call leaves its arguments as they were: every client, worker, task
\* and rule, and each collection's length and order.
C10_ArgumentsUnchanged == outcome.status # "none" => data = inData /\ rules = inRules

\* a call whose conflict check filtered the allowedPhases of a phaseWindow rule
\* down to nothing
C10_Witness ==
  /\ Returned /\ findingsOfType("conflicting_rules") # {}
  /\ \E i \in DOMAIN inRules :
       /\ inRules[i].type = "phaseWindow" /\ inRules[i].isActive
       /\ allowedPhasesOf(inRules[i]).a # <<>>
       /\ \E j \in DOMAIN inRules :
            /\ inRules[j].type = "coRun" /\ inRules[j].isActive
            /\ taskIdsOf(inRules[j]) # <<>>
            /\ taskIdsOf(inRules[j])[1] = taskIdOf(inRules[i])

collectionOf(d, collection) == IF has(d, collection) THEN d[collection] ELSE <<>>

\* does the returned list hold a finding of the type for the entity id ?
hasFindingFor(type, entityId) ==
  \E k \in findingsOfType(type) : outcome.list[k].entityId = entityId

\* C1: a call on records with malformed or loosely typed field values
\* (AvailableSlots or AttributesJSON that is not valid JSON, PreferredPhases
\* bracketed but unparseable, bracketed but not an array, or a number, Skills
\* or RequiredSkills a number) returns a list and raises no exception.
C1_NeverThrows == outcome.status # "threw"

\* C4: a client with an integer PriorityLevel p has an invalid_priority finding
\* with its id exactly when p < 1 or p > 5.
C4_PriorityFindingIff ==
  Returned =>
    \A i \in DOMAIN collectionOf(inData, "clients") :
      Get(inData["clients"][i], "PriorityLevel").t = "number" =>
        (hasFindingFor("invalid_priority", Get(inData["clients"][i], "ClientID"))
           <=> (Get(inData["clients"][i], "PriorityLevel").n < 1
                  \/ Get(inData["clients"][i], "PriorityLevel").n > 5))

\* C5: a task with an integer Duration d has an invalid_duration finding with
\* its id exactly when d < 1.
C5_DurationFindingIff ==
  Returned =>
    \A i \in DOMAIN collectionOf(inData, "tasks") :
      Get(inData["tasks"][i], "Duration").t = "number" =>
        (hasFindingFor("invalid_duration", Get(inData["tasks"][i], "TaskID"))
           <=> Get(inData["tasks"][i], "Duration").n < 1)

\* the demand per phase of the tasks, as the demand loop (lines 362-389) sums it
phaseDemandOf(tasks) == forEach(withMap(Run(<<>>, FALSE, <<>>), <<>>), tasks, addDemand).map

noWorkers(d) == ~has(d, "workers") \/ d["workers"] = <<>>

\* C6: with tasks supplied and the workers absent or empty, every phase of
\* positive demand has a phase_slot_saturation finding reporting capacity 0.
C6_SaturationWithoutWorkers ==
  Returned /\ has(inData, "tasks") /\ noWorkers(inData) =>
    \A i \in DOMAIN phaseDemandOf(inData["tasks"]) :
      Gt(phaseDemandOf(inData["tasks"])[i].v, Num(0)) =>
        \E k \in findingsOfType("phase_slot_saturation") :
          outcome.list[k].message.args
            = <<phaseDemandOf(inData["tasks"])[i].k, toStr(phaseDemandOf(inData["tasks"])[i].v), <<"0">>>>

\* the allowed phases of a member of a coRun rule: those of the phaseWindow
\* rule targeting it, else its own PreferredPhases, else phases 1..5
allowedSet(taskId) ==
  {memberPhases(inRules, collectionOf(inData, "tasks"), taskId).phases.a[i] :
     i \in DOMAIN memberPhases(inRules, collectionOf(inData, "tasks"), taskId).phases.a}

noCommonPhase(taskIds) ==
  ~\E phase \in allowedSet(taskIds[1]) : \A i \in DOMAIN taskIds : phase \in allowedSet(taskIds[i])

distinctMembers(rule) == Cardinality({taskIdsOf(rule)[i] : i \in DOMAIN taskIdsOf(rule)})

\* C7: an active coRun rule with at least two distinct members has exactly one
\* conflicting_rules finding exactly when its members' allowed-phase sets have
\* an empty intersection, also when no phaseWindow rule is active.
C7_ConflictIffNoCommonPhase ==
  Returned =>
    \A j \in DOMAIN inRules :
      inRules[j].type = "coRun" /\ inRules[j].isActive /\ distinctMembers(inRules[j]) >= 2 =>
        (Cardinality({k \in DOMAIN outcome.list : outcome.list[k] = conflictFinding(taskIdsOf(inRules[j]))}) = 1
           <=> noCommonPhase(taskIdsOf(inRules[j])))

\* C8: when an active coRun rule names three or more distinct tasks, the
\* returned list holds at least one circular_corun_group finding.
C8_CircularForThreeOrMore ==
  Returned /\ (\E j \in DOMAIN inRules :
                 inRules[j].type = "coRun" /\ inRules[j].isActive /\ distinctMembers(inRules[j]) >= 3)
    => findingsOfType("circular_corun_group") # {}

\* a call on rules of which an active coRun rule names MaxGroup distinct tasks
C8_Witness ==
  /\ Returned /\ findingsOfType("circular_corun_group") # {}
  /\ \E j \in DOMAIN inRules :
       inRules[j].type = "coRun" /\ inRules[j].isActive /\ distinctMembers(inRules[j]) >= 3

\* no collection of the data holds a record
emptyData(d) == \A c \in DOMAIN d : d[c] = <<>>

\* C11: a call with no collections or only empty collections, and an empty
\* (or omitted) rule list, returns the empty list and raises no exception.
C11_EmptyInputEmptyList ==
  outcome.status # "none" /\ emptyData(inData) /\ inRules = <<>> =>
    Returned /\ outcome.list = <<>>

\* a call on three empty collections and no rules, made a second time on the
\* same engine
C11_Witness ==
  /\ Returned /\ DOMAIN inData = {"clients", "workers", "tasks"}
  /\ emptyData(inData) /\ inRules = <<>>
  /\ repeat.status = "returned"

\* the comma-separated tokens of s, trimmed
trimmedTokens(s) == [i \in DOMAIN split(s, ",") |-> trim(split(s, ",")[i])]

\* the non-empty tokens of the client's RequestedTaskIDs that are the TaskID of no task
unresolvedOf(client, tasks) ==
  IF typeof(Get(client, "RequestedTaskIDs")) # "string" THEN <<>>
  ELSE SelectSeq(trimmedTokens(Get(client, "RequestedTaskIDs").s),
                 LAMBDA token : token # <<>> /\ \A i \in DOMAIN tasks : Get(tasks[i], "TaskID") # Str(token))

\* the findings of the type that carry the entity id
findingsFor(type, entityId) == {k \in findingsOfType(type) : outcome.list[k].entityId = entityId}

\* C12: given clients and tasks, a client with an unresolved token in its
\* RequestedTaskIDs has exactly one missing_task_references finding with its
\* id, whose message lists exactly the unresolved tokens; a client without has
\* none.
C12_TaskReferences ==
  Returned /\ has(inData, "clients") /\ has(inData, "tasks") =>
    \A i \in DOMAIN inData["clients"] :
      IF unresolvedOf(inData["clients"][i], inData["tasks"]) = <<>>
      THEN findingsFor("missing_task_references", Get(inData["clients"][i], "ClientID")) = {}
      ELSE /\ Cardinality(findingsFor("missing_task_references", Get(inData["clients"][i], "ClientID"))) = 1
           /\ \A k \in findingsFor("missing_task_references", Get(inData["clients"][i], "ClientID")) :
                outcome.list[k].message.args
                  = <<join(unresolvedOf(inData["clients"][i], inData["tasks"]), CommaSpace)>>

\* two clients, one with unresolved tokens among resolved, padded and empty
\* ones, the other with every token resolved
C12_Witness ==
  /\ Returned /\ has(inData, "clients") /\ has(inData, "tasks")
  /\ Cardinality(findingsOfType("missing_task_references")) = 1
  /\ \E i, j \in DOMAIN inData["clients"] :
       /\ Len(unresolvedOf(inData["clients"][i], inData["tasks"])) = 1
       /\ Len(trimmedTokens(Get(inData["clients"][i], "RequestedTaskIDs").s)) > 1
       /\ unresolvedOf(inData["clients"][j], inData["tasks"]) = <<>>
       /\ typeof(Get(inData["clients"][j], "RequestedTaskIDs")) = "string"
       /\ Get(inData["clients"][j], "RequestedTaskIDs").s # <<>>

\* slots parses to an array of fewer than MaxLoadPerPhase elements
fewerSlotsThanLoad(slots, worker) ==
  /\ JSONparse(slots).ok /\ isArray(JSONparse(slots).v)
  /\ Lt(Num(Len(JSONparse(slots).v.a)), Get(worker, "MaxLoadPerPhase"))

\* C13 as stated: a worker has an overloaded_worker finding with its id
\* exactly when its AvailableSlots parses to an array of fewer than
\* MaxLoadPerPhase elements; a worker whose AvailableSlots does not parse has
\* none.
C13_OverloadedIffParsedShorter ==
  Returned =>
    \A i \in DOMAIN collectionOf(inData, "workers") :
      hasFindingFor("overloaded_worker", Get(inData["workers"][i], "WorkerID"))
        <=> fewerSlotsThanLoad(Get(inData["workers"][i], "AvailableSlots"), inData["workers"][i])

\* C13: a worker has an overloaded_worker finding with its id exactly when
\* its AvailableSlots, read as the empty array "[]" when it is absent or the
\* empty string, parses to an array of fewer than MaxLoadPerPhase elements; a
\* worker whose non-empty AvailableSlots does not parse has none.
C13_OverloadedIffShorterOrNoSlots ==
  Returned =>
    \A i \in DOMAIN collectionOf(inData, "workers") :
      hasFindingFor("overloaded_worker", Get(inData["workers"][i], "WorkerID"))
        <=> fewerSlotsThanLoad(OrElse(Get(inData["workers"][i], "AvailableSlots"), Str(<<"[", "]">>)),
                               inData["workers"][i])

\* a worker without AvailableSlots and with a positive MaxLoadPerPhase, found
\* overloaded
C13_Witness ==
  /\ Returned
  /\ \E i \in DOMAIN collectionOf(inData, "workers") :
       /\ ~Truthy(Get(inData["workers"][i], "AvailableSlots"))
       /\ Gt(Get(inData["workers"][i], "MaxLoadPerPhase"), Num(0))
       /\ hasFindingFor("overloaded_worker", Get(inData["workers"][i], "WorkerID"))

\* the rules without the inactive ones
withoutInactive(rs) == SelectSeq(rs, LAMBDA rule : rule.isActive)

\* the rules with every rule made active
allActive(rs) == [i \in DOMAIN rs |-> [rs[i] EXCEPT !.isActive = TRUE]]

\* C14: the call returns what it returns for the same entities and the rules
\* without the inactive ones; adding, removing or changing inactive rules
\* leaves the returned list unchanged.
C14_InactiveRulesIgnored ==
  outcome.status # "none" =>
    outcome = outcomeOf(validateData(Engine(<<>>, 0), inData, withoutInactive(inRules)))

\* a call that returned findings on rules with an inactive rule that would
\* change the list if it were active
C14_Witness ==
  /\ Returned /\ outcome.list # <<>>
  /\ withoutInactive(inRules) # inRules
  /\ outcomeOf(validateData(Engine(<<>>, 0), inData, allActive(inRules))) # outcome

\* the finding types of the taxonomy
Vocabulary == perEntityTypes \cup {"overloaded_worker"} \cup crossEntityTypes \cup ruleTypes

\* the severity that goes with a finding type
severityOf(type) == IF type = "non_json_attributes" THEN "warning" ELSE "error"

\* C15: every returned finding has one of the sixteen types of the taxonomy
\* and the severity of its type: warning for non_json_attributes, error for
\* every other type, and never info.
C15_TypeFixesSeverity ==
  /\ Cardinality(Vocabulary) = 16
  /\ Returned =>
       \A k \in DOMAIN outcome.list :
         /\ outcome.list[k].type \in Vocabulary
         /\ outcome.list[k].severity = severityOf(outcome.list[k].type)
         /\ outcome.list[k].severity # "info"

\* a list with a warning and with errors of the per-entity, cross-entity and
\* rule checks
C15_Witness ==
  /\ Returned
  /\ findingsOfType("non_json_attributes") # {}
  /\ findingsOfType("unparseable_slots") # {}
  /\ findingsOfType("missing_skill_coverage") # {}
  /\ findingsOfType("conflicting_rules") # {}

\* how many times x occurs in xs
RECURSIVE occurrences(_, _)
occurrences(xs, x) ==
  IF xs = <<>> THEN 0 ELSE (IF Head(xs) = x THEN 1 ELSE 0) + occurrences(Tail(xs), x)

\* is s a JSON array ?  is s a dash range of two integers ?
isJsonArray(s) == JSONparse(Str(s)).ok /\ isArray(JSONparse(Str(s)).v)
isDashRange(s) ==
  /\ Len(split(s, "-")) >= 2
  /\ parseInt(trim(split(s, "-")[1])).t # "NaN"
  /\ parseInt(trim(split(s, "-")[2])).t # "NaN"

\* the phases a..b
expansion(a, b) == [i \in 1..(b - a + 1) |-> Num(a + i - 1)]

\* the phases a PreferredPhases string lists: the elements of the JSON array,
\* or the expansion of the dash range, or none
listedPhases(s) ==
  IF isJsonArray(s) THEN JSONparse(Str(s)).v.a
  ELSE IF isDashRange(s)
  THEN expansion(parseInt(trim(split(s, "-")[1])).n, parseInt(trim(split(s, "-")[2])).n)
  ELSE <<>>

phasesString(task) ==
  IF typeof(Get(task, "PreferredPhases")) = "string" THEN Get(task, "PreferredPhases").s ELSE <<>>

\* the preferred phases as stated: the JSON array, or the expansion of the
\* dash range, or [1] when neither form is there
statedPhases(s) == IF isJsonArray(s) \/ isDashRange(s) THEN listedPhases(s) ELSE <<Num(1)>>

\* the preferred phases that are charged: phase 1 also when the array or the
\* expansion is empty
chargedPhases(s) == IF listedPhases(s) = <<>> THEN <<Num(1)>> ELSE listedPhases(s)

\* the sum of Duration over the tasks whose stated phases contain p
RECURSIVE statedDemand(_, _)
statedDemand(tasks, p) ==
  IF tasks = <<>> THEN 0
  ELSE (IF occurrences(statedPhases(phasesString(Head(tasks))), Num(p)) > 0
        THEN Get(Head(tasks), "Duration").n ELSE 0)
         + statedDemand(Tail(tasks), p)

\* the sum, over the tasks, of Duration (1 when absent or 0) for every
\* occurrence of p in the charged phases
RECURSIVE chargedDemand(_, _)
chargedDemand(tasks, p) ==
  IF tasks = <<>> THEN 0
  ELSE OrElse(Get(Head(tasks), "Duration"), Num(1)).n * occurrences(chargedPhases(phasesString(Head(tasks))), Num(p))
         + chargedDemand(Tail(tasks), p)

\* the slots of a worker whose AvailableSlots parses to an array
parsedSlots(worker) ==
  IF typeof(Get(worker, "AvailableSlots")) = "string" /\ isJsonArray(Get(worker, "AvailableSlots").s)
  THEN JSONparse(Get(worker, "AvailableSlots")).v.a ELSE <<>>

\* the sum of MaxLoadPerPhase over every occurrence of p in the workers' slots
RECURSIVE capacityAt(_, _)
capacityAt(workers, p) ==
  IF workers = <<>> THEN 0
  ELSE Get(Head(workers), "MaxLoadPerPhase").n * occurrences(parsedSlots(Head(workers)), Num(p))
         + capacityAt(Tail(workers), p)

\* the phase_slot_saturation findings that name phase p
saturationFindingsAt(p) ==
  {k \in findingsOfType("phase_slot_saturation") : outcome.list[k].message.args[1] = natToStr(p)}

numericDurations(tasks) == \A i \in DOMAIN tasks : Get(tasks[i], "Duration").t = "number"

\* C16 as stated: given workers and tasks with a Duration, phase p has exactly
\* one phase_slot_saturation finding when the sum of Duration over the tasks
\* whose preferred phases (the JSON array, the expansion of the dash range, or
\* [1] when neither is there) contain p exceeds the capacity of p, and none
\* otherwise.
C16_SaturationIffStatedDemand ==
  Returned /\ has(inData, "workers") /\ has(inData, "tasks") /\ numericDurations(collectionOf(inData, "tasks")) =>
    \A p \in 1..5 :
      Cardinality(saturationFindingsAt(p))
        = IF statedDemand(inData["tasks"], p) > capacityAt(inData["workers"], p) THEN 1 ELSE 0

\* C16: given workers and tasks, phase p has exactly one phase_slot_saturation
\* finding when demand(p) > capacity(p) and none otherwise; capacity(p) sums
\* MaxLoadPerPhase over every occurrence of p in the parsed AvailableSlots
\* arrays; demand(p) sums Duration, read as 1 when absent or 0, over every
\* occurrence of p in the tasks' preferred phases: the JSON array or the
\* expansion of the dash range, and [1] when that is empty or neither form is
\* there.
C16_SaturationIffChargedDemand ==
  Returned /\ has(inData, "workers") /\ has(inData, "tasks") =>
    \A p \in 1..5 :
      Cardinality(saturationFindingsAt(p))
        = IF chargedDemand(inData["tasks"], p) > capacityAt(inData["workers"], p) THEN 1 ELSE 0

\* two tasks charged to the same phase, one of them by the default for a
\* reversed range, whose summed demand exceeds the summed capacity of that phase
C16_Witness ==
  /\ Returned /\ has(inData, "workers") /\ has(inData, "tasks")
  /\ Len(inData["tasks"]) = 2 /\ Len(inData["workers"]) = 2
  /\ isDashRange(phasesString(inData["tasks"][2])) /\ listedPhases(phasesString(inData["tasks"][2])) = <<>>
  /\ capacityAt(inData["workers"], 1) > 0
  /\ chargedDemand(<<inData["tasks"][1]>>, 1) <= capacityAt(inData["workers"], 1)
  /\ Cardinality(saturationFindingsAt(1)) = 1

\* the phases the saturation check charges with the demand of the task
chargedPhaseKeys(task) == {phaseDemandOf(<<task>>)[i].k : i \in DOMAIN phaseDemandOf(<<task>>)}

\* the phases the conflict check allows the task by its own PreferredPhases
allowedPhaseKeys(task) ==
  {toStr(ownPhases(Get(task, "PreferredPhases")).phases.a[i]) :
     i \in DOMAIN ownPhases(Get(task, "PreferredPhases")).phases.a}

\* C17: for a task with a non-empty PreferredPhases string, the set of phases
\* the saturation check charges with its demand is the set of phases the
\* conflict check allows it.
C17_SamePhaseSet ==
  Returned =>
    \A i \in DOMAIN collectionOf(inData, "tasks") :
      typeof(Get(inData["tasks"][i], "PreferredPhases")) = "string" /\ Truthy(Get(inData["tasks"][i], "PreferredPhases"))
        => chargedPhaseKeys(inData["tasks"][i]) = allowedPhaseKeys(inData["tasks"][i])

\* the task ids a circular_corun_group finding lists, in order
listedIds(finding) ==
  [i \in DOMAIN split(finding.message.args[1], "->") |-> Str(trim(split(finding.message.args[1], "->")[i]))]

\* are both task ids members of one active coRun rule ?
inCommonRule(id1, id2) ==
  \E j \in DOMAIN inRules :
    /\ inRules[j].type = "coRun" /\ inRules[j].isActive
    /\ \E a, b \in DOMAIN taskIdsOf(inRules[j]) : taskIdsOf(inRules[j])[a] = id1 /\ taskIdsOf(inRules[j])[b] = id2

\* C18: the task ids in the message of every circular_corun_group finding
\* form a cycle of the co-run graph: the first id is the last one, and every
\* two consecutive ids are members of a common active coRun rule.
C18_FindingsAreCycles ==
  Returned =>
    \A k \in findingsOfType("circular_corun_group") :
      /\ Len(listedIds(outcome.list[k])) >= 2
      /\ listedIds(outcome.list[k])[1] = listedIds(outcome.list[k])[Len(listedIds(outcome.list[k]))]
      /\ \A i \in 1..(Len(listedIds(outcome.list[k])) - 1) :
           inCommonRule(listedIds(outcome.list[k])[i], listedIds(outcome.list[k])[i + 1])

\* the comma-separated tokens of a skills value, trimmed and lower-cased; none
\* when the value is absent or empty
skillTokens(v) ==
  IF typeof(v) = "string" /\ v.s # <<>>
  THEN [i \in DOMAIN split(v.s, ",") |-> toLowerCase(trim(split(v.s, ",")[i]))]
  ELSE <<>>

skillSetOf(v) == {skillTokens(v)[i] : i \in DOMAIN skillTokens(v)}

\* the workers whose skill set contains every required skill of the task
qualifiedFor(workers, task) ==
  {w \in DOMAIN workers : skillSetOf(Get(task, "RequiredSkills")) \subseteq skillSetOf(Get(workers[w], "Skills"))}

\* C19: given workers and tasks, a task with MaxConcurrent set has a
\* max_concurrency_infeasible finding with its id exactly when MaxConcurrent
\* exceeds the number of workers whose skills contain every required skill of
\* the task; with no required skill every worker is qualified.
C19_InfeasibleIffTooFewQualified ==
  Returned /\ has(inData, "workers") /\ has(inData, "tasks") =>
    \A i \in DOMAIN inData["tasks"] :
      Get(inData["tasks"][i], "MaxConcurrent").t = "number" =>
        (hasFindingFor("max_concurrency_infeasible", Get(inData["tasks"][i], "TaskID"))
           <=> Get(inData["tasks"][i], "MaxConcurrent").n
                 > Cardinality(qualifiedFor(inData["workers"], inData["tasks"][i])))

\* the skill tokens of all the workers
allSkillsOf(workers) == UNION {skillSetOf(Get(workers[w], "Skills")) : w \in DOMAIN workers}

\* the required skill tokens of the task that no worker has
uncoveredOf(task, workers) ==
  SelectSeq(skillTokens(Get(task, "RequiredSkills")), LAMBDA token : token \notin allSkillsOf(workers))

\* C20: given workers and tasks, a task with a required skill token (trimmed,
\* lower-cased) that is in no worker's skill tokens has exactly one
\* missing_skill_coverage finding with its id, which lists exactly the
\* uncovered tokens; a task without has none.
C20_SkillCoverage ==
  Returned /\ has(inData, "workers") /\ has(inData, "tasks") =>
    \A i \in DOMAIN inData["tasks"] :
      IF uncoveredOf(inData["tasks"][i], inData["workers"]) = <<>>
      THEN findingsFor("missing_skill_coverage", Get(inData["tasks"][i], "TaskID")) = {}
      ELSE /\ Cardinality(findingsFor("missing_skill_coverage", Get(inData["tasks"][i], "TaskID"))) = 1
           /\ \A k \in findingsFor("missing_skill_coverage", Get(inData["tasks"][i], "TaskID")) :
                outcome.list[k].message.args
                  = <<join(uncoveredOf(inData["tasks"][i], inData["workers"]), CommaSpace)>>

\* two tasks: one with a covered and an uncovered skill, the other with two
\* skills covered only when case and padding are ignored
C20_Witness ==
  /\ Returned /\ has(inData, "workers") /\ has(inData, "tasks")
  /\ Cardinality(findingsOfType("missing_skill_coverage")) = 1
  /\ \E i, j \in DOMAIN inData["tasks"] :
       /\ Len(uncoveredOf(inData["tasks"][i], inData["workers"])) = 1
       /\ Len(skillTokens(Get(inData["tasks"][i], "RequiredSkills"))) = 2
       /\ uncoveredOf(inData["tasks"][j], inData["workers"]) = <<>>
       /\ Len(skillTokens(Get(inData["tasks"][j], "RequiredSkills"))) = 2
       /\ toLowerCase(Get(inData["tasks"][j], "RequiredSkills").s) # Get(inData["tasks"][j], "RequiredSkills").s

\* the records of the collection that carry the id
carriers(d, collection, id) ==
  {i \in DOMAIN d[collection] : Get(d[collection][i], idField(collection)) = id}

\* the duplicate_id findings of the collection for the id
duplicateFindings(collection, id) ==
  {k \in findingsOfType("duplicate_id") :
     outcome.list[k].entityType = collection /\ outcome.list[k].entityId = id}

unparseable(worker) ==
  Truthy(Get(worker, "AvailableSlots")) /\ ~JSONparse(Get(worker, "AvailableSlots")).ok

slotTypes == {"invalid_slots_format", "invalid_slot_values", "unparseable_slots"}

\* the data without the workers whose slots do not parse
withoutUnparseable(d) ==
  [d EXCEPT !["workers"] = SelectSeq(d["workers"], LAMBDA worker : ~unparseable(worker))]

\* the findings of the overload and saturation checks, in order
loadFindings(list) == SelectSeq(list, LAMBDA f : f.type \in {"overloaded_worker", "phase_slot_saturation"})

firstSlotFailure(slots) ==
  IF ~JSONparse(slots).ok THEN {"unparseable_slots"}
  ELSE IF JSONparse(slots).v.t # "array" THEN {"invalid_slots_format"}
  ELSE IF \E i \in DOMAIN JSONparse(slots).v.a :
            JSONparse(slots).v.a[i].t # "number" \/ JSONparse(slots).v.a[i].n < 1
  THEN {"invalid_slot_values"}
  ELSE {}

\* the slot findings of the worker, as positions in the returned list
slotFindingsOf(worker) == UNION {findingsFor(type, Get(worker, "WorkerID")) : type \in slotTypes}

\* C23: a worker with a non-empty AvailableSlots has at most one finding
\* about its slots, that of the first failing condition: unparseable_slots
\* when the value is not valid JSON, else invalid_slots_format when it is not
\* an array, else invalid_slot_values when an element is not a number or is
\* less than 1, else none.
C23_FirstFailingCondition ==
  Returned /\ has(inData, "workers") =>
    \A i \in DOMAIN inData["workers"] :
      Truthy(Get(inData["workers"][i], "AvailableSlots")) =>
        /\ Cardinality(slotFindingsOf(inData["workers"][i])) <= 1
        /\ {outcome.list[k].type : k \in slotFindingsOf(inData["workers"][i])}
             = firstSlotFailure(Get(inData["workers"][i], "AvailableSlots"))

\* two workers with slots failing in different ways, one of them not an array
C23_Witness ==
  /\ Returned /\ has(inData, "workers") /\ Len(inData["workers"]) = 2
  /\ findingsOfType("invalid_slots_format") # {}
  /\ findingsOfType("invalid_slot_values") # {}
  /\ Cardinality(UNION {findingsOfType(type) : type \in slotTypes}) = 2

\* the mandatory fields of an entity kind
mandatoryFields(entityType) ==
  CASE entityType = "clients" -> {"ClientID", "ClientName", "PriorityLevel", "RequestedTaskIDs"}
    [] entityType = "workers" -> {"WorkerID", "WorkerName", "Skills", "AvailableSlots", "MaxLoadPerPhase"}
    [] entityType = "tasks" -> {"TaskID", "TaskName", "Duration", "RequiredSkills"}

\* the missing_columns findings of the collection
columnFindings(collection) ==
  {k \in findingsOfType("missing_columns") : outcome.list[k].entityType = collection}

\* C24: a supplied non-empty collection has one missing_columns finding when
\* its first record lacks a mandatory field of its kind and none otherwise,
\* whatever the keys of the later records; the finding carries no entityId.
C24_MissingColumnsOfFirstRecord ==
  Returned =>
    \A collection \in DOMAIN inData :
      inData[collection] # <<>> =>
        /\ Cardinality(columnFindings(collection))
             = IF mandatoryFields(collection) \subseteq DOMAIN inData[collection][1] THEN 0 ELSE 1
        /\ \A k \in columnFindings(collection) : "entityId" \notin DOMAIN outcome.list[k]

\* a complete first record before an incomplete one, and no finding
C24_Witness ==
  /\ Returned /\ findingsOfType("missing_columns") = {}
  /\ \E collection \in DOMAIN inData :
       /\ Len(inData[collection]) >= 2
       /\ mandatoryFields(collection) \subseteq DOMAIN inData[collection][1]
       /\ ~(mandatoryFields(collection) \subseteq DOMAIN inData[collection][2])

\* C25: the co-run traversal of every rule set, also with overlapping or
\* repeated task ids, enters each node at most once and comes to its end,
\* with the findings that validateData returns for the rule set.
C25_TraversalTerminates ==
  /\ [](\A i, j \in DOMAIN dfs.entered : i # j => dfs.entered[i] # dfs.entered[j])
  /\ [](dfs.phase = "done" =>
          dfs.found = validateCircularCoRunGroups(Run(<<>>, FALSE, dfs.rules), dfs.rules).res)
  /\ (dfs.phase = "running" ~> dfs.phase = "done")

\* a finished traversal over two rules that share a task, with a rule
\* repeating a task id
C25_Witness ==
  /\ dfs.phase = "done" /\ Len(dfs.rules) = 2 /\ Len(dfs.entered) >= 2 /\ dfs.found # <<>>
  /\ \E a, b \in DOMAIN taskIdsOf(dfs.rules[2]) : a # b /\ taskIdsOf(dfs.rules[2])[a] = taskIdsOf(dfs.rules[2])[b]

\* C26: a later call on the same engine leaves the list that an earlier call
\* returned as it was when it was returned
C26_EarlierListUnchanged == held.now = held.was

\* a caller holds a non-empty list of an earlier call, and the later call has
\* returned another list
C26_Witness ==
  /\ Returned
  /\ held.was # <<>>
  /\ outcome.list # <<>>
  /\ outcome.list # held.was

\* the coRun rules of the call, active or not
coRunRulesOf(rs) == {r \in DOMAIN rs : rs[r].type = "coRun"}

\* the distinct task ids that rule r names
namedBy(rs, r) == {taskIdsOf(rs[r])[i] : i \in DOMAIN taskIdsOf(rs[r])}

\* C27: with one coRun rule, active, naming k >= 2 distinct task ids, the
\* call returns exactly k - 1 circular_corun_group findings; when the rule
\* names two tasks a, b, the one finding lists a, b, a
C27_OneRuleGivesKMinusOne ==
  (Returned /\ Cardinality(coRunRulesOf(inRules)) = 1) =>
    \A r \in coRunRulesOf(inRules) :
      (inRules[r].isActive /\ Cardinality(namedBy(inRules, r)) >= 2) =>
        /\ Cardinality(findingsOfType("circular_corun_group")) = Cardinality(namedBy(inRules, r)) - 1
        /\ (Len(taskIdsOf(inRules[r])) = 2) =>
             \A k \in findingsOfType("circular_corun_group") :
               listedIds(outcome.list[k])
                 = <<taskIdsOf(inRules[r])[1], taskIdsOf(inRules[r])[2], taskIdsOf(inRules[r])[1]>>

\* one rule over MaxGroup tasks has given MaxGroup - 1 findings
C27_Witness ==
  /\ Returned
  /\ Len(inRules) = 1
  /\ Cardinality(coRunRulesOf(inRules)) = 1
  /\ Cardinality(namedBy(inRules, 1)) = MaxGroup
  /\ Cardinality(findingsOfType("circular_corun_group")) = MaxGroup - 1

\* the active phaseWindow rules of the call that target the task, in rule-list order
windowsOn(taskId) ==
  SelectSeq([i \in DOMAIN inRules |-> i],
            LAMBDA i : inRules[i].type = "phaseWindow" /\ inRules[i].isActive /\ taskIdOf(inRules[i]) = taskId)

\* the phases a phaseWindow rule states: none when it has no allowedPhases
statedWindow(rule) ==
  IF "allowedPhases" \in DOMAIN rule.parameters
  THEN {rule.parameters["allowedPhases"].a[i] : i \in DOMAIN rule.parameters["allowedPhases"].a}
  ELSE {}

\* the allowed set of a co-run member: that of the first phaseWindow rule on it,
\* and without one the phases of the task itself
allowedSetOf(taskId) ==
  IF windowsOn(taskId) # <<>> THEN statedWindow(inRules[windowsOn(taskId)[1]])
  ELSE {ownPhases(preferredPhasesOfTask(inData["tasks"], taskId)).phases.a[i] :
          i \in DOMAIN ownPhases(preferredPhasesOfTask(inData["tasks"], taskId)).phases.a}

\* C28: with active phaseWindow rules present, a coRun rule over two or more
\* tasks is reported as conflicting exactly when no phase is in the allowed
\* sets of all its tasks, the allowed set of a task targeted by several
\* phaseWindow rules being the allowedPhases of the first of them, and that of
\* a rule without allowedPhases being empty
C28_FirstWindowDecides ==
  (Returned /\ \E i \in DOMAIN inRules : inRules[i].type = "phaseWindow" /\ inRules[i].isActive) =>
    \A r \in coRunRulesOf(inRules) :
      (inRules[r].isActive /\ Cardinality(namedBy(inRules, r)) >= 2) =>
        ((\E k \in findingsOfType("conflicting_rules") :
            outcome.list[k] = conflictFinding(taskIdsOf(inRules[r])))
           <=> ~ \E phase \in UNION {allowedSetOf(id) : id \in namedBy(inRules, r)} : \A id \in namedBy(inRules, r) : phase \in allowedSetOf(id))

\* a task targeted by two phaseWindow rules, the first without allowedPhases:
\* the rule is reported as conflicting, though the second one allows a phase
\* that the other task allows too
C28_Witness ==
  /\ Returned
  /\ Len(windowsOn(Id("T", 1))) = 2
  /\ "allowedPhases" \notin DOMAIN inRules[windowsOn(Id("T", 1))[1]].parameters
  /\ statedWindow(inRules[windowsOn(Id("T", 1))[2]]) = {Num(1)}
  /\ Num(1) \in allowedSetOf(Id("T", 2))
  /\ findingsOfType("conflicting_rules") # {}

\* C29: after every upload, data change and rule change of the dashboard, the
\* stored validationResults are what validateData returns for the stored
\* clients, workers and tasks with the stored businessRules
C29_ResultsOfStoredData ==
  dash.last.op # "none" =>
    outcomeOf(validateData(Engine(<<>>, 0), storedData(dash.dataState), dash.dataState.businessRules))
      = [status |-> "returned", list |-> dash.dataState.validationResults]

\* the ids of the records of a stored collection
storedIds(ds, entityType) == {Get(ds[entityType][i], idColumn(entityType)) : i \in DOMAIN ds[entityType]}

====
